---- MODULE Spec2Model ----
(***************************************************************************)
(* cocon: resolution-and-acquisition pipeline of package sources.          *)
(*                                                                         *)
(* Eight specifications share this module:                                 *)
(*   SpecTag    findTag as a function of the listed tags, the version and  *)
(*              the package name (tag-finder.ts)                           *)
(*   SpecFetch  one call of fetchWithRetry, request by request (http.ts)   *)
(*   Spec       pullPackageForProject / ensurePackageSourceFromInstalled   *)
(*              over the cache store, await by await, one call after       *)
(*              another (pull.ts, downloader.ts, store.ts)                 *)
(*   SpecSync   two calls of pullPackageForProject started together by     *)
(*              syncProjectDependencies or executePullAction, interleaved  *)
(*              await by await                                             *)
(*   SpecStore  the store directory as a tree of paths, under acquisitions *)
(*              and calls of pruneCache, and getStoredPackages over it     *)
(*              (store.ts, prune.ts)                                       *)
(*   SpecLink   calls of ensureProjectPackageLink over what may stand at   *)
(*              the entry path and at the link path (store.ts)             *)
(*   SpecLocator parseRepositoryUrl and normalizeRepositoryToHttpsRepo as  *)
(*              functions of the repository field (repo-resolver.ts)       *)
(*   SpecPull   executePullAction over the store of the pull view, the     *)
(*              pulls it starts interleaved await by await (command.ts)    *)
(* Text is modelled as a sequence of one-character strings, so that        *)
(* includes(), startsWith(), split() and RegExp.test() are computed and    *)
(* not assumed.                                                            *)
(***************************************************************************)
EXTENDS Integers, Sequences, FiniteSets, TLC

VARIABLES
    ft,        \* SpecTag: the call of findTag under test
    fw,        \* SpecFetch: the call of fetchWithRetry under test
    pc,        \* Spec: where each caller stands in its call
    inp,       \* Spec: the arguments of each caller's call and its cwd
    loc,       \* Spec: the local variables of each caller's call
    log,       \* Spec: what each call did: requests, git spawns, progress, store writes
    hits,      \* Spec: the keys that a returned call has served from the cache
    fs,        \* Spec: the shared store, the project store and the temp directories
    batch,     \* SpecSync: the run of syncProjectDependencies or executePullAction
    sd,        \* SpecStore: the store directory as a tree, and its last enumeration
    ln,        \* SpecLink: the last call of ensureProjectPackageLink
    rp,        \* SpecLocator: the repository field under test and what it parsed to
    view       \* SpecPull: the pull view's store and the pulls executePullAction started

tagVars == <<ft>>
fetchVars == <<fw>>
acqVars == <<pc, inp, loc, log, hits, fs, batch>>
storeVars == <<sd, ln>>
vars == <<ft, fw, pc, inp, loc, log, hits, fs, batch, sd, ln, rp, view>>

----------------------------------------------------------------------------
(* Text helpers                                                            *)

\* JS null for "tag: string | null": a listed tag is never empty (the
\* listing pattern is refs/tags/(.+)), so the empty text stands for null.
Null == <<>>

Undefined == <<"u","n","d","e","f","i","n","e","d">>

\* String.prototype.startsWith
StartsWith(s, p) ==
    /\ Len(p) <= Len(s)
    /\ SubSeq(s, 1, Len(p)) = p

\* String.prototype.includes (literal substring)
Includes(s, sub) ==
    \E i \in 1..(Len(s) - Len(sub) + 1) : SubSeq(s, i, i + Len(sub) - 1) = sub

\* Array.prototype.includes
ArrayIncludes(arr, x) == \E i \in 1..Len(arr) : arr[i] = x

\* Array.prototype.find, given the indexes at which the test holds: the
\* element at the least of them, else Null
ArrayFind(arr, matching) ==
    IF matching = {} THEN Null
    ELSE arr[CHOOSE i \in matching : \A j \in matching : i <= j]

\* String.prototype.split(sep) for a one-character separator
RECURSIVE SplitAt(_, _, _, _)
SplitAt(s, sep, i, cur) ==
    IF i > Len(s) THEN <<cur>>
    ELSE IF s[i] = sep THEN <<cur>> \o SplitAt(s, sep, i + 1, <<>>)
    ELSE SplitAt(s, sep, i + 1, Append(cur, s[i]))

Split(s, sep) == SplitAt(s, sep, 1, <<>>)

\* arr[i] of a JS array (0-based i); `${undefined}` prints "undefined"
ElementOrUndefined(arr, i) == IF i + 1 <= Len(arr) THEN arr[i + 1] ELSE Undefined

----------------------------------------------------------------------------
(* RegExp, for the pattern findTag builds from the version                 *)

\* version.replace(/\./g, '\\.'): every dot gets a backslash before it and
\* every other character is copied as it is
RECURSIVE EscapeDotsFrom(_, _)
EscapeDotsFrom(s, i) ==
    IF i > Len(s) THEN <<>>
    ELSE IF s[i] = "." THEN <<"\\", ".">> \o EscapeDotsFrom(s, i + 1)
    ELSE <<s[i]>> \o EscapeDotsFrom(s, i + 1)

EscapeDots(s) == EscapeDotsFrom(s, 1)

\* new RegExp(source), for the syntax a version can spell: a backslash
\* escapes the next character, "." matches any character, "+" repeats the
\* atom before it one or more times, anything else matches itself.
\* An atom is [ch, any, plus]; <<"invalid">> stands for the SyntaxError.
RegExpInvalid == <<"invalid">>

RECURSIVE RegExpParse(_, _, _)
RegExpParse(src, i, acc) ==
    IF i > Len(src) THEN acc
    ELSE IF src[i] = "\\" THEN
        IF i + 1 > Len(src) THEN RegExpInvalid
        ELSE RegExpParse(src, i + 2,
                 Append(acc, [ch |-> src[i + 1], any |-> FALSE, plus |-> FALSE]))
    ELSE IF src[i] = "." THEN
        RegExpParse(src, i + 1, Append(acc, [ch |-> ".", any |-> TRUE, plus |-> FALSE]))
    ELSE IF src[i] = "+" THEN
        IF acc = <<>> \/ acc[Len(acc)].plus THEN RegExpInvalid
        ELSE RegExpParse(src, i + 1, [acc EXCEPT ![Len(acc)].plus = TRUE])
    ELSE RegExpParse(src, i + 1,
             Append(acc, [ch |-> src[i], any |-> FALSE, plus |-> FALSE]))

RegExp(src) == RegExpParse(src, 1, <<>>)

AtomMatches(atom, c) == atom.any \/ atom.ch = c

\* the atoms from k on match a prefix of text starting at position i
RECURSIVE MatchFrom(_, _, _, _)
MatchFrom(atoms, k, text, i) ==
    IF k > Len(atoms) THEN TRUE
    ELSE IF ~atoms[k].plus THEN
        /\ i <= Len(text)
        /\ AtomMatches(atoms[k], text[i])
        /\ MatchFrom(atoms, k + 1, text, i + 1)
    ELSE
        \E n \in 1..(Len(text) - i + 1) :
            /\ \A j \in i..(i + n - 1) : AtomMatches(atoms[k], text[j])
            /\ MatchFrom(atoms, k + 1, text, i + n)

\* RegExp.prototype.test, no anchors: a match may start anywhere
RegExpTest(atoms, text) ==
    \E i \in 1..(Len(text) + 1) : MatchFrom(atoms, 1, text, i)

----------------------------------------------------------------------------
(* findTag                                                                 *)

At == <<"@">>

TagResult(tag, usedFallback) == [tag |-> tag, usedFallback |-> usedFallback, threw |-> FALSE]

\* the RegExp constructor throws outside any try block of findTag
TagThrew == [tag |-> Null, usedFallback |-> FALSE, threw |-> TRUE]

\* Pattern 5: the version with its dots escaped, as a RegExp
VersionPattern(version) == RegExp(EscapeDots(version))

FuzzyMatch(tags, version) ==
    LET versionPattern == VersionPattern(version)
    IN  ArrayFind(tags, { i \in 1..Len(tags) : RegExpTest(versionPattern, tags[i]) })

\* (a variant without the try block around listRemoteTags)
FindTagUnguarded(listing, version, packageName) ==
    IF ~listing.ok THEN TagThrew
    ELSE TagResult(IF listing.tags = <<>> THEN Null ELSE listing.tags[1],
                   listing.tags = <<>>)

\* listing = [ok, tags]: ok is FALSE when listRemoteTags throws (git exits
\* non-zero, or the spawn fails)
FindTag(listing, version, packageName) ==
    LET tags == listing.tags
        vTag == <<"v">> \o version
        scopedTag == packageName \o At \o version
        unscopedName == ElementOrUndefined(Split(packageName, "/"), 1)
        unscopedTag == unscopedName \o At \o version
    IN  IF ~listing.ok THEN TagResult(Null, TRUE)
        ELSE IF Len(tags) = 0 THEN TagResult(Null, TRUE)
        ELSE IF ArrayIncludes(tags, vTag) THEN TagResult(vTag, FALSE)
        ELSE IF ArrayIncludes(tags, version) THEN TagResult(version, FALSE)
        ELSE IF ArrayIncludes(tags, scopedTag) THEN TagResult(scopedTag, FALSE)
        ELSE IF StartsWith(packageName, At) /\ ArrayIncludes(tags, unscopedTag)
             THEN TagResult(unscopedTag, FALSE)
        ELSE IF VersionPattern(version) = RegExpInvalid THEN TagThrew
        ELSE IF FuzzyMatch(tags, version) # Null
             THEN TagResult(FuzzyMatch(tags, version), FALSE)
        ELSE TagResult(Null, TRUE)

----------------------------------------------------------------------------
(* SpecTag: findTag applied to bounded listings                            *)

MaxTags == 3

BoundedSeq(S, n) == UNION {[1..k -> S] : k \in 0..n}

\* versions: plain, and with semver build metadata
Versions == { <<"1", ".", "0">>, <<"1", ".", "0", "+", "b">> }

\* package names: unscoped and scoped
PackageNames == { <<"p">>, <<"@", "s", "/", "p">> }

\* what a repository may list for (version, packageName): one tag per exact
\* rule, tags that hold the version inside other text, and near misses
TagPool(version, packageName) ==
    { <<"v">> \o version,
      version,
      packageName \o At \o version,
      <<"p">> \o At \o version,
      <<"r">> \o version \o <<"c">>,
      <<"r", "1", "x", "0">>,
      <<"1", ".", "0", "0", "b">>,
      <<"z">> }

FtInit ==
    \E v \in Versions, n \in PackageNames :
        \E t \in BoundedSeq(TagPool(v, n), MaxTags), ok \in BOOLEAN :
            /\ ok \/ t = <<>>
            /\ ft = [st |-> "call", listing |-> [ok |-> ok, tags |-> t],
                     version |-> v, packageName |-> n,
                     res |-> TagResult(Null, FALSE)]

FindTagCall ==
    /\ ft.st = "call"
    /\ ft' = [ft EXCEPT !.st = "returned",
                        !.res = FindTag(ft.listing, ft.version, ft.packageName)]
    /\ UNCHANGED <<fetchVars, acqVars, storeVars, rp, view>>

----------------------------------------------------------------------------
(* fetchWithRetry                                                          *)

MaxAttempts == 3

BaseDelayMs == 150

RETRYABLE_STATUS_CODES == {408, 425, 429, 500, 502, 503, 504}

Upper == <<"A","B","C","D","E","F","G","H","I","J","K","L","M",
           "N","O","P","Q","R","S","T","U","V","W","X","Y","Z">>

Lower == <<"a","b","c","d","e","f","g","h","i","j","k","l","m",
           "n","o","p","q","r","s","t","u","v","w","x","y","z">>

\* String.prototype.toLowerCase
ToLowerCase(s) ==
    [i \in 1..Len(s) |->
        IF \E k \in 1..26 : Upper[k] = s[i]
        THEN Lower[CHOOSE k \in 1..26 : Upper[k] = s[i]]
        ELSE s[i]]

MsgSocketClosed ==
    <<"s","o","c","k","e","t"," ","c","o","n","n","e","c","t","i","o","n"," ",
      "w","a","s"," ","c","l","o","s","e","d"," ",
      "u","n","e","x","p","e","c","t","e","d","l","y">>

MsgEconnreset == <<"e","c","o","n","n","r","e","s","e","t">>

MsgTimedOut == <<"t","i","m","e","d"," ","o","u","t">>

MsgNetwork == <<"n","e","t","w","o","r","k">>

\* error = [isError, message]: isError is "error instanceof Error"
IsRetryableError(error) ==
    IF ~error.isError THEN FALSE
    ELSE LET message == ToLowerCase(error.message)
         IN  \/ Includes(message, MsgSocketClosed)
             \/ Includes(message, MsgEconnreset)
             \/ Includes(message, MsgTimedOut)
             \/ Includes(message, MsgNetwork)

\* Response.ok
ResponseOk(response) == response.status >= 200 /\ response.status <= 299

\* 2 ** n
RECURSIVE Pow2(_)
Pow2(n) == IF n <= 0 THEN 1 ELSE 2 * Pow2(n - 1)

\* (a variant that waits twice as long, to tell the claimed waits from others)
DelayMsDoubled(attempt) == BaseDelayMs * Pow2(attempt)

\* the argument of delay() after the given attempt
DelayMs(attempt) == BaseDelayMs * Pow2(attempt - 1)

\* (a variant that forgets the last attempt, to tell a returned response
\* from a thrown one)
ReturnsResponseUncapped(response, attempt) ==
    \/ ResponseOk(response)
    \/ response.status \notin RETRYABLE_STATUS_CODES

\* the try block: the response is returned unless its status is retryable
\* and an attempt is left
ReturnsResponse(response, attempt) ==
    \/ ResponseOk(response)
    \/ response.status \notin RETRYABLE_STATUS_CODES
    \/ attempt = MaxAttempts

\* the catch block: the error is rethrown unless it is retryable and an
\* attempt is left
RethrowsError(error, attempt) ==
    attempt = MaxAttempts \/ ~IsRetryableError(error)

\* One pass of the loop body up to its await of delay(). A fetch state is
\* [st, attempt, events, result, lastError]; outcome is what
\* "await fetch(url, init)" gave: [kind |-> "response", status, body] or
\* [kind |-> "error", isError, message]. events is the history of the call:
\* the requests with their outcomes and the waits with their length.
FetchAttemptStep(s, outcome) ==
    LET ev == Append(s.events, [type |-> "request", outcome |-> outcome])
    IN  IF outcome.kind = "response"
        THEN IF ReturnsResponse(outcome, s.attempt)
             THEN [s EXCEPT !.st = "returned", !.events = ev, !.result = outcome]
             ELSE [s EXCEPT !.st = "delay", !.events = ev]
        ELSE IF RethrowsError(outcome, s.attempt)
             THEN [s EXCEPT !.st = "thrown", !.events = ev, !.result = outcome,
                            !.lastError = outcome]
             ELSE [s EXCEPT !.st = "delay", !.events = ev, !.lastError = outcome]

NoOutcome == [kind |-> "none"]

MsgFailedToFetch == <<"F","a","i","l","e","d"," ","t","o"," ","f","e","t","c","h">>

\* await delay(...); attempt += 1; the loop test; and the throw after the
\* loop
FetchDelayStep(s) ==
    LET ev == Append(s.events, [type |-> "wait", ms |-> DelayMs(s.attempt)])
    IN  IF s.attempt + 1 <= MaxAttempts
        THEN [s EXCEPT !.st = "fetch", !.attempt = s.attempt + 1, !.events = ev]
        ELSE [s EXCEPT !.st = "thrown", !.attempt = s.attempt + 1, !.events = ev,
                       !.result = IF s.lastError = NoOutcome
                                  THEN [kind |-> "error", isError |-> TRUE,
                                        message |-> MsgFailedToFetch]
                                  ELSE s.lastError]

FetchStart ==
    [st |-> "fetch", attempt |-> 1, events |-> <<>>, result |-> NoOutcome,
     lastError |-> NoOutcome]

FetchDone(s) == s.st \in {"returned", "thrown"}

\* the calls of fetch() in the history of a fetchWithRetry call
RequestIndexes(ev) == { i \in 1..Len(ev) : ev[i].type = "request" }

RequestCount(ev) == Cardinality(RequestIndexes(ev))

----------------------------------------------------------------------------
(* SpecFetch: one call of fetchWithRetry against every transport outcome   *)

Response(status, body) == [kind |-> "response", status |-> status, body |-> body]

Error(message) == [kind |-> "error", isError |-> TRUE, message |-> message]

\* a thrown value that is no Error object
Thrown(message) == [kind |-> "error", isError |-> FALSE, message |-> message]

MsgECONNRESET == <<"r","e","a","d"," ","E","C","O","N","N","R","E","S","E","T">>

MsgRequestTimedOut == <<"T","h","e"," ","o","p","e","r","a","t","i","o","n"," ",
                        "t","i","m","e","d"," ","o","u","t">>

MsgNetworkError == <<"N","e","t","w","o","r","k","E","r","r","o","r">>

MsgSocketError == <<"T","h","e"," ">> \o MsgSocketClosed

MsgBadUrl == <<"I","n","v","a","l","i","d"," ","U","R","L">>

TransportResponses ==
    { Response(st, TRUE) : st \in {200, 204, 403, 404} \cup RETRYABLE_STATUS_CODES }
        \cup { Response(200, FALSE) }

TransportErrors ==
    { Error(m) : m \in {MsgECONNRESET, MsgRequestTimedOut, MsgNetworkError,
                        MsgSocketError, MsgBadUrl} }
        \cup { Thrown(MsgNetwork) }

TransportOutcomes == TransportResponses \cup TransportErrors

FtOff == [st |-> "off"]

FwOff == [st |-> "off"]

FwInit == fw = FetchStart

\* await fetch(url, init), and what the loop body does with its outcome
FwAttempt ==
    /\ fw.st = "fetch"
    /\ \E outcome \in TransportOutcomes : fw' = FetchAttemptStep(fw, outcome)
    /\ UNCHANGED <<tagVars, acqVars, storeVars, rp, view>>

\* await delay(150 * 2 ** (attempt - 1))
FwDelay ==
    /\ fw.st = "delay"
    /\ fw' = FetchDelayStep(fw)
    /\ UNCHANGED <<tagVars, acqVars, storeVars, rp, view>>

----------------------------------------------------------------------------
(* Repositories and archive URLs                                           *)

NoRepo == [host |-> "none", owner |-> <<>>, repo |-> <<>>, directory |-> Null]

MsgDefinitelyTyped == <<"D", "e", "f", "i", "n", "i", "t", "e", "l", "y", "T", "y", "p", "e", "d">>

\* the repositories a package may resolve to: one per host, one with a
\* subdirectory (a monorepo package), and the shared types monorepo
Repos ==
    { [host |-> h, owner |-> <<"o">>, repo |-> <<"r">>, directory |-> Null] :
          h \in {"github", "gitlab", "bitbucket"} }
      \cup { [host |-> "github", owner |-> <<"o">>, repo |-> <<"r">>,
              directory |-> <<"p", "k", "g">>] }
      \cup { [host |-> "github", owner |-> MsgDefinitelyTyped,
              repo |-> MsgDefinitelyTyped, directory |-> Null] }

Main == <<"m", "a", "i", "n">>

Master == <<"m", "a", "s", "t", "e", "r">>

\* An archive URL is kept as its parts: the text of the template, and the
\* owner, repository and ref substituted into it.
Url(site, template, repo, ref) ==
    [site |-> site, template |-> template, owner |-> repo.owner,
     repo |-> repo.repo, ref |-> ref]

GetTagTarballUrl(repo, tag) ==
    CASE repo.host = "github" ->
           Url("https://github.com", "/<owner>/<repo>/archive/refs/tags/<ref>.tar.gz", repo, tag)
      [] repo.host = "gitlab" ->
           Url("https://gitlab.com", "/<owner>/<repo>/-/archive/<ref>/<repo>-<ref>.tar.gz", repo, tag)
      [] repo.host = "bitbucket" ->
           Url("https://bitbucket.org", "/<owner>/<repo>/get/<ref>.tar.gz", repo, tag)

BranchUrl(repo, branch) ==
    CASE repo.host = "github" ->
           Url("https://github.com", "/<owner>/<repo>/archive/refs/heads/<ref>.tar.gz", repo, branch)
      [] repo.host = "gitlab" ->
           Url("https://gitlab.com", "/<owner>/<repo>/-/archive/<ref>/<repo>-<ref>.tar.gz", repo, branch)
      [] repo.host = "bitbucket" ->
           Url("https://bitbucket.org", "/<owner>/<repo>/get/<ref>.tar.gz", repo, branch)

\* (a variant in the other order)
GetDefaultBranchTarballUrlsMasterFirst(repo) == <<BranchUrl(repo, Master), BranchUrl(repo, Main)>>

GetDefaultBranchTarballUrls(repo) == <<BranchUrl(repo, Main), BranchUrl(repo, Master)>>

\* `${registryUrl}/${encodedName}`
RegistryUrl(packageName) ==
    [site |-> "registry", template |-> "/<repo>", owner |-> <<>>,
     repo |-> packageName, ref |-> <<>>]

MsgTypesPrefix == <<"@", "t", "y", "p", "e", "s", "/">>

\* (a variant that compares owner and repo as they are spelled)
ShouldSkipTagLookupExactCase(packageName, repo) ==
    /\ StartsWith(packageName, MsgTypesPrefix)
    /\ repo.host = "github"
    /\ repo.owner = MsgDefinitelyTyped
    /\ repo.repo = MsgDefinitelyTyped

ShouldSkipTagLookup(packageName, repo) ==
    /\ StartsWith(packageName, MsgTypesPrefix)
    /\ repo.host = "github"
    /\ ToLowerCase(repo.owner) = ToLowerCase(MsgDefinitelyTyped)
    /\ ToLowerCase(repo.repo) = ToLowerCase(MsgDefinitelyTyped)

----------------------------------------------------------------------------
(* Errors                                                                  *)

Digit == <<"0", "1", "2", "3", "4", "5", "6", "7", "8", "9">>

\* `${n}` of a non-negative integer
RECURSIVE NumberToString(_)
NumberToString(n) ==
    IF n < 10 THEN <<Digit[n + 1]>>
    ELSE NumberToString(n \div 10) \o <<Digit[(n % 10) + 1]>>

\* An Error: its message, the URLs its message lists after "(attempted: ",
\* and where it was raised (cause, read by no code: history only).
MkError(message, cause) == [message |-> message, attempted |-> <<>>, cause |-> cause]

NoError == [message |-> <<>>, attempted |-> <<>>, cause |-> "none"]

MsgFailedToDownload == <<"F", "a", "i", "l", "e", "d", " ", "t", "o", " ", "d", "o", "w", "n", "l", "o", "a", "d", ":", " ">>

MsgNoResponseBody == <<"N", "o", " ", "r", "e", "s", "p", "o", "n", "s", "e", " ", "b", "o", "d", "y">>

MsgTarError == <<"T", "A", "R", "_", "B", "A", "D", "_", "A", "R", "C", "H", "I", "V", "E">>

MsgRenameError == <<"r", "e", "n", "a", "m", "e", " ", "f", "a", "i", "l", "e", "d">>

MsgGitFailed == <<"g", "i", "t", " ", "f", "a", "i", "l", "e", "d">>

MsgSparseEmpty == <<"S", "p", "a", "r", "s", "e", " ", "c", "h", "e", "c", "k", "o", "u", "t", " ", "p", "r", "o", "d", "u", "c", "e", "d", " ", "e", "m", "p", "t", "y", " ", "p", "a", "t", "h">>

MsgEnoent == <<"E", "N", "O", "E", "N", "T">>

MsgCacheMissing == <<"C", "a", "c", "h", "e", "d", " ", "p", "a", "c", "k", "a", "g", "e", " ", "s", "o", "u", "r", "c", "e", " ", "i", "s", " ", "m", "i", "s", "s", "i", "n", "g">>

MsgNoRepository == <<"N", "o", " ", "r", "e", "p", "o", "s", "i", "t", "o", "r", "y", " ", "m", "e", "t", "a", "d", "a", "t", "a", " ", "f", "o", "u", "n", "d">>

MsgNotResolved == <<"C", "o", "u", "l", "d", " ", "n", "o", "t", " ", "r", "e", "s", "o", "l", "v", "e", " ", "i", "n", "s", "t", "a", "l", "l", "e", "d", " ", "p", "a", "c", "k", "a", "g", "e">>

\* response.statusText: empty over HTTP/2
StatusText(response) == <<>>

\* `Failed to download: ${response.status} ${response.statusText}`
DownloadFailedMessage(response) ==
    MsgFailedToDownload \o NumberToString(response.status) \o <<" ">> \o StatusText(response)

\* (a variant that takes every failure for a 404)
IsNotFoundFailureAlways(error) == TRUE

\* message.includes('Failed to download: 404')
IsNotFoundFailure(error) ==
    Includes(error.message, MsgFailedToDownload \o <<"4", "0", "4">>)

----------------------------------------------------------------------------
(* The store on disk                                                       *)

Procs == {1, 2}

\* a cache key is (packageName, version)
TypesKey == [name |-> <<"@", "t", "y", "p", "e", "s", "/", "n">>, version |-> <<"1", ".", "0">>]

PlainKey == [name |-> <<"p">>, version |-> <<"1", ".", "0">>]

Keys == {TypesKey, PlainKey}

\* fs.entry[k]: what is at <store>/<name>@<version>:
\*   "absent", "complete" (a whole source tree), "partial" (a directory
\*   holding part of a tree), "looplink" (a symlink that resolves to itself),
\*   "file"
\* fs.link[k]: what is at <cwd>/.cocon/packages/<name>@<version> of a project
\*   outside the home directory: "absent", "ok" (a symlink to the entry's
\*   path), "stale" (a symlink to another place), "file", "dir"
\* fs.tmp[p]: the .tmp- directory p made with mkdtemp (its name is unique to
\*   the call): "none", "empty", "partial", "full"
IsDirectory(entry) == entry \in {"complete", "partial"}

\* (a variant that leaves what is at the final path)
FsKeepFinal(f, k) == f

\* fsp.rm(outputDir, { recursive: true }), errors ignored
FsRemoveFinal(f, k) == [f EXCEPT !.entry[k] = "absent"]

\* (a variant that gives every call the same directory)
FsMakeTempShared(f, p) == [f EXCEPT !.tmp = [q \in Procs |-> "empty"]]

\* fsp.mkdtemp(path.join(storeDir, '.tmp-'))
FsMakeTemp(f, p) == [f EXCEPT !.tmp[p] = "empty"]

\* (a variant that extracts straight into the final path)
FsExtractIntoFinal(f, p, k) == [f EXCEPT !.entry[k] = "partial"]

\* tar's extract({ cwd: tempDir, strip: 1 }) while the archive streams in:
\* files appear under the temp directory
FsExtractWrite(f, p, k) == [f EXCEPT !.tmp[p] = "partial"]

\* the extractor's 'finish'
FsExtractFinish(f, p) == [f EXCEPT !.tmp[p] = "full"]

\* what a directory holding `content` is once it stands at the final path
Installed(content) == IF content = "full" THEN "complete" ELSE "partial"

\* fsp.rename(tempDir, outputDir) succeeds only onto nothing (an existing
\* non-empty directory gives ENOTEMPTY, a symlink ENOTDIR)
CanRename(f, k) == f.entry[k] = "absent"

FsRename(f, p, k) == [f EXCEPT !.entry[k] = Installed(f.tmp[p]), !.tmp[p] = "none"]

\* (a variant that leaves the temp directory)
FsKeepTemp(f, p) == f

\* fsp.rm(tempDir, { recursive: true })
FsRemoveTemp(f, p) == [f EXCEPT !.tmp[p] = "none"]

\* git clone into <tempRoot>/repo, and the checkout: a work tree with .git
FsClone(f, p) == [f EXCEPT !.tmp[p] = "partial"]

\* fsp.rm(path.join(cloneDir, '.git')) after the checkout: the tree is whole
FsStripGit(f, p) == [f EXCEPT !.tmp[p] = "full"]

\* fsp.rename(cloneDir, outputDir): the temp root stays behind, empty
FsRenameClone(f, p, k) == [f EXCEPT !.entry[k] = Installed(f.tmp[p]), !.tmp[p] = "empty"]

\* (a variant that makes the link without the stat of the target)
EnsureProjectPackageLinkUnchecked(f, k, cwdHome) ==
    [threw |-> ~IsDirectory(f.entry[k]),
     fs |-> IF cwdHome THEN f ELSE [f EXCEPT !.link[k] = "ok"]]

\* ensureProjectPackageLink(cwd, packageName, version), as one step.
\* cwdHome: cwd is the home directory, so that the project store
\* <cwd>/.cocon/packages is the shared store and linkPath is targetPath.
\* Gives [threw, fs].
EnsureProjectPackageLink(f, k, cwdHome) ==
    IF ~IsDirectory(f.entry[k])
    THEN [threw |-> TRUE, fs |-> f]
    ELSE IF cwdHome
    THEN \* lstat(linkPath) is the entry itself: a directory, no symlink, and
         \* pathsMatch holds, so the "else if (!existing.isSymbolicLink())"
         \* branch removes it; the symlink then made points at its own path
         [threw |-> FALSE, fs |-> [f EXCEPT !.entry[k] = "looplink"]]
    ELSE IF f.link[k] = "ok"
    THEN [threw |-> FALSE, fs |-> f]
    ELSE \* nothing there, or something else: removed, and the link made
         [threw |-> FALSE, fs |-> [f EXCEPT !.link[k] = "ok"]]

\* no file system: nothing in either store
NoFs == [entry |-> [k \in Keys |-> "absent"], link |-> [k \in Keys |-> "absent"],
         tmp |-> [p \in Procs |-> "none"]]

LnOff == [made |-> FALSE, key |-> TypesKey, cwdHome |-> FALSE, threw |-> FALSE,
          again |-> FALSE, before |-> NoFs]

\* a call of ensureProjectPackageLink(cwd, name, version) by a caller of the
\* library: ln keeps its arguments, whether it threw, the file system it
\* found, and whether it repeats a call that returned
LinkCall ==
    /\ \E k \in Keys, cwdHome \in BOOLEAN :
          LET r == EnsureProjectPackageLink(fs, k, cwdHome)
          IN  /\ fs' = r.fs
              /\ ln' = [made |-> TRUE, key |-> k, cwdHome |-> cwdHome, threw |-> r.threw,
                        again |-> ln.made /\ ~ln.threw /\ ln.key = k /\ ln.cwdHome = cwdHome,
                        before |-> fs]
    /\ UNCHANGED <<pc, inp, loc, log, hits, batch, sd, tagVars, fetchVars, rp, view>>

----------------------------------------------------------------------------
(* The store directory as a tree: paths, enumeration                       *)

\* A path is the sequence of its segments, relative to the store directory;
\* the tree is the set of [path, kind] of what stands under it, kind being
\* "dir", "file" or "broken" (a symlink to nothing: readdir names it, stat
\* throws ENOENT).

\* path.join on one text: its segments between "/", the empty ones dropped
Segments(text) == SelectSeq(Split(text, "/"), LAMBDA seg : seg # <<>>)

\* (a variant that keeps only the last segment of the name)
GetStoredPackagePathFlat(packageName, version) ==
    << Segments(packageName)[Len(Segments(packageName))] \o At \o version >>

\* getStoredPackagePath(storeDir, packageName, version), relative to storeDir
GetStoredPackagePath(packageName, version) ==
    Segments(packageName \o At \o version)

\* the text of a path with `sep` between its segments: parentSegments.join,
\* and the names readdir gives ("/", or "\" on Windows)
RECURSIVE JoinPath(_, _)
JoinPath(segments, sep) ==
    IF Len(segments) = 1 THEN segments[1]
    ELSE segments[1] \o <<sep>> \o JoinPath(Tail(segments), sep)

\* String.prototype.lastIndexOf for one character (0-based, -1: none)
LastIndexOf(text, ch) ==
    LET at == { i \in 1..Len(text) : text[i] = ch }
    IN  IF at = {} THEN -1 ELSE (CHOOSE i \in at : \A j \in at : j <= i) - 1

\* the null of parseStoredPackageRelativePath
NotParsed == [packageName |-> Null, version |-> Null]

\* (a variant that takes the name from the leaf segment alone)
ParseLeafOnly(relativePath) ==
    LET segments == Segments([i \in 1..Len(relativePath) |->
                                 IF relativePath[i] = "\\" THEN "/" ELSE relativePath[i]])
        leafSegment == segments[Len(segments)]
        versionSeparatorIndex == LastIndexOf(leafSegment, "@")
    IN  IF segments = <<>> THEN NotParsed
        ELSE IF \/ versionSeparatorIndex <= 0
                \/ versionSeparatorIndex = Len(leafSegment) - 1
        THEN NotParsed
        ELSE [packageName |-> SubSeq(leafSegment, 1, versionSeparatorIndex),
              version |-> SubSeq(leafSegment, versionSeparatorIndex + 2, Len(leafSegment))]

ParseStoredPackageRelativePath(relativePath) ==
    LET segments == Segments([i \in 1..Len(relativePath) |->
                                 IF relativePath[i] = "\\" THEN "/" ELSE relativePath[i]])
        leafSegment == segments[Len(segments)]
        versionSeparatorIndex == LastIndexOf(leafSegment, "@")
        leafPackageName == SubSeq(leafSegment, 1, versionSeparatorIndex)
        parentSegments == SubSeq(segments, 1, Len(segments) - 1)
    IN  IF segments = <<>> THEN NotParsed
        ELSE IF \/ versionSeparatorIndex <= 0
                \/ versionSeparatorIndex = Len(leafSegment) - 1
        THEN NotParsed
        ELSE [packageName |-> IF parentSegments # <<>>
                              THEN JoinPath(parentSegments, "/") \o <<"/">> \o leafPackageName
                              ELSE leafPackageName,
              version |-> SubSeq(leafSegment, versionSeparatorIndex + 2, Len(leafSegment))]

\* the candidates of collectStoredPackages: of everything
\* readdir(storeDir, { recursive: true }) names, what holds an "@" and parses
Candidates(tree, sep) ==
    { x \in tree :
        /\ ArrayIncludes(JoinPath(x.path, sep), "@")
        /\ ParseStoredPackageRelativePath(JoinPath(x.path, sep)) # NotParsed }

\* (a variant that gives the listing up at the first candidate that is not
\* a directory)
CollectStoredPackagesAllOrNothing(tree, sep) ==
    IF \E x \in Candidates(tree, sep) : x.kind # "dir" THEN {}
    ELSE { [packageName |-> ParseStoredPackageRelativePath(JoinPath(e.path, sep)).packageName,
            version |-> ParseStoredPackageRelativePath(JoinPath(e.path, sep)).version,
            outputDir |-> e.path] : e \in Candidates(tree, sep) }

\* collectStoredPackages: of everything readdir(storeDir, { recursive: true })
\* names, what holds an "@", parses, and is a directory for stat (a stat
\* that throws, and what is no directory, are passed over)
CollectStoredPackages(tree, sep) ==
    { [packageName |-> ParseStoredPackageRelativePath(JoinPath(e.path, sep)).packageName,
       version |-> ParseStoredPackageRelativePath(JoinPath(e.path, sep)).version,
       outputDir |-> e.path] :
        e \in { x \in tree :
                  /\ ArrayIncludes(JoinPath(x.path, sep), "@")
                  /\ ParseStoredPackageRelativePath(JoinPath(x.path, sep)) # NotParsed
                  /\ x.kind = "dir" } }

\* the order of the characters of names and versions under localeCompare
\* (punctuation, then digits, then letters)
CollationOrder == <<"_", "-", ".", "@", "/", "\\", "+">> \o Digit \o Lower

CollationRank(ch) == CHOOSE i \in 1..Len(CollationOrder) : CollationOrder[i] = ch

\* the digits at the head of a text, and the number they spell
RECURSIVE DigitRun(_)
DigitRun(text) ==
    IF text # <<>> /\ ArrayIncludes(Digit, text[1])
    THEN <<text[1]>> \o DigitRun(Tail(text)) ELSE <<>>

RECURSIVE DigitsValue(_)
DigitsValue(digits) ==
    IF digits = <<>> THEN 0
    ELSE 10 * DigitsValue(SubSeq(digits, 1, Len(digits) - 1))
           + (CHOOSE d \in 0..9 : Digit[d + 1] = digits[Len(digits)])

\* a.localeCompare(b), and with { numeric: true }: -1, 0 or 1
RECURSIVE LocaleCompare(_, _, _)
LocaleCompare(a, b, numeric) ==
    IF a = <<>> \/ b = <<>>
    THEN IF a = b THEN 0 ELSE IF a = <<>> THEN -1 ELSE 1
    ELSE IF numeric /\ DigitRun(a) # <<>> /\ DigitRun(b) # <<>>
    THEN IF DigitsValue(DigitRun(a)) # DigitsValue(DigitRun(b))
         THEN IF DigitsValue(DigitRun(a)) < DigitsValue(DigitRun(b)) THEN -1 ELSE 1
         ELSE LocaleCompare(SubSeq(a, Len(DigitRun(a)) + 1, Len(a)),
                            SubSeq(b, Len(DigitRun(b)) + 1, Len(b)), numeric)
    ELSE IF CollationRank(a[1]) # CollationRank(b[1])
    THEN IF CollationRank(a[1]) < CollationRank(b[1]) THEN -1 ELSE 1
    ELSE LocaleCompare(Tail(a), Tail(b), numeric)

\* the comparator of packages.sort in getStoredPackages
ComparePackages(a, b) ==
    IF LocaleCompare(a.packageName, b.packageName, FALSE) # 0
    THEN LocaleCompare(a.packageName, b.packageName, FALSE)
    ELSE LocaleCompare(a.version, b.version, TRUE)

\* getStoredPackages: what collectStoredPackages pushed, sorted
RECURSIVE GetStoredPackages(_)
GetStoredPackages(collected) ==
    IF collected = {} THEN <<>>
    ELSE LET first == CHOOSE e \in collected :
                          \A o \in collected : ComparePackages(e, o) <= 0
         IN  <<first>> \o GetStoredPackages(collected \ {first})

\* path is `prefix` or stands under it
Under(prefix, path) ==
    Len(prefix) <= Len(path) /\ SubSeq(path, 1, Len(prefix)) = prefix

\* fsp.rm(path, { recursive: true })
TreeRemove(tree, path) == { e \in tree : ~Under(path, e.path) }

\* fsp.mkdir(path.dirname(path), { recursive: true })
TreeMakeParents(tree, path) ==
    tree \cup { [path |-> SubSeq(path, 1, n), kind |-> "dir"] : n \in 1..(Len(path) - 1) }

\* a directory `path` that holds `content` (paths relative to it)
TreeAt(path, content) ==
    { [path |-> path, kind |-> "dir"] } \cup
    { [path |-> path \o e.path, kind |-> e.kind] : e \in content }

\* fsp.rename(from, to) of a directory onto nothing
TreeRename(tree, from, to) ==
    { e \in tree : ~Under(from, e.path) } \cup
    { [path |-> to \o SubSeq(e.path, Len(from) + 1, Len(e.path)), kind |-> e.kind] :
        e \in { x \in tree : Under(from, x.path) } }

\* specifier.replace(/^[\^~>=<\s]+/, '')
RECURSIVE DropRangeLead(_)
DropRangeLead(specifier) ==
    IF specifier # <<>> /\ specifier[1] \in {"^", "~", ">", "=", "<", " "}
    THEN DropRangeLead(Tail(specifier)) ELSE specifier

\* the characters of [\dA-Za-z.+-], and those of [0-9A-Za-z.-]
VersionChars ==
    { Digit[i] : i \in 1..Len(Digit) } \cup { Lower[i] : i \in 1..Len(Lower) }
      \cup { Upper[i] : i \in 1..Len(Upper) } \cup {".", "+", "-"}

SuffixChars == VersionChars \ {"+"}

\* version.split(/[^\dA-Za-z.+-]/).shift(): the text before the first
\* character outside the class
RECURSIVE FirstPiece(_)
FirstPiece(version) ==
    IF version # <<>> /\ version[1] \in VersionChars
    THEN <<version[1]>> \o FirstPiece(Tail(version)) ELSE <<>>

\* text without the digits at its head
AfterDigits(text) == SubSeq(text, Len(DigitRun(text)) + 1, Len(text))

\* /^\d+\.\d+\.\d+([-.+][0-9A-Za-z.-]+)?$/.test(text)
HasVersionShape(text) ==
    LET r1 == AfterDigits(text)
        r2 == AfterDigits(Tail(r1))
        r3 == AfterDigits(Tail(r2))
    IN  /\ DigitRun(text) # <<>>
        /\ r1 # <<>> /\ r1[1] = "." /\ DigitRun(Tail(r1)) # <<>>
        /\ r2 # <<>> /\ r2[1] = "." /\ DigitRun(Tail(r2)) # <<>>
        /\ \/ r3 = <<>>
           \/ /\ Len(r3) >= 2
              /\ r3[1] \in {"-", ".", "+"}
              /\ \A i \in 2..Len(r3) : r3[i] \in SuffixChars

\* normalizeVersionFromSpecifier(specifier): a version, or null
NormalizeVersionFromSpecifier(specifier) ==
    LET version == DropRangeLead(specifier)
        parsedVersion == IF FirstPiece(version) # <<>> THEN FirstPiece(version) ELSE version
    IN  IF HasVersionShape(parsedVersion) THEN parsedVersion ELSE Null

\* (a variant that splits at the first "@")
ParsePackageVersionReferenceFirstAt(reference) ==
    LET at == { i \in 1..Len(reference) : reference[i] = "@" }
        separatorIndex == IF at = {} THEN -1
                          ELSE (CHOOSE i \in at : \A j \in at : i <= j) - 1
    IN  IF separatorIndex <= 0 \/ separatorIndex >= Len(reference) - 1
        THEN NotParsed
        ELSE [packageName |-> SubSeq(reference, 1, separatorIndex),
              version |-> SubSeq(reference, separatorIndex + 2, Len(reference))]

\* parsePackageVersionReference(reference): the halves around the last "@",
\* or null
ParsePackageVersionReference(reference) ==
    LET separatorIndex == LastIndexOf(reference, "@")
    IN  IF separatorIndex <= 0 \/ separatorIndex >= Len(reference) - 1
        THEN NotParsed
        ELSE [packageName |-> SubSeq(reference, 1, separatorIndex),
              version |-> SubSeq(reference, separatorIndex + 2, Len(reference))]

\* A project is [readable, dependencies]: whether readPackageJson(cwd)
\* returns, and what getProjectDependencies gives, each dependency with its
\* declared spec and the version resolveInstalledPackageFromCwd finds for
\* it (Null: it throws).

\* s with its leading white space dropped
RECURSIVE TrimStart(_)
TrimStart(s) ==
    IF s # <<>> /\ s[1] = " " THEN TrimStart(Tail(s)) ELSE s

MsgWorkspaceSpec == <<"w", "o", "r", "k", "s", "p", "a", "c", "e", ":", "*">>

\* a workspace specifier with a leading blank and a capital
MsgWorkspaceSpelled == <<" ", "W", "o", "r", "k", "s", "p", "a", "c", "e", ":", "^">>

MsgWorkspacePrefix == <<"w", "o", "r", "k", "s", "p", "a", "c", "e", ":">>

\* (a variant that takes the specifier as it is spelled)
IsWorkspaceSpecifierAsSpelled(specifier) ==
    StartsWith(specifier, MsgWorkspacePrefix)

\* /^\s*workspace:/i.test(specifier)
IsWorkspaceSpecifier(specifier) ==
    StartsWith(ToLowerCase(TrimStart(specifier)), MsgWorkspacePrefix)

\* (a variant that takes the declared range and never the installed version)
TargetVersionDeclaredOnly(dependency) ==
    NormalizeVersionFromSpecifier(dependency.spec)

\* the target version of one dependency in getProjectTargetVersions: the
\* installed version, in the catch the version of the declared range
TargetVersion(dependency) ==
    IF dependency.installed # Null THEN dependency.installed
    ELSE NormalizeVersionFromSpecifier(dependency.spec)

\* getProjectTargetVersions(cwd) of a project whose manifest is readable:
\* the (name, version) of every dependency that has a target version
GetProjectTargetVersions(project) ==
    { [packageName |-> project.dependencies[i].name,
       version |-> TargetVersion(project.dependencies[i])] :
        i \in { j \in 1..Len(project.dependencies) :
                  TargetVersion(project.dependencies[j]) # Null } }

\* buildCachedVersionMap(stored).get(packageName) ?? []: the versions stored
\* for the name, the highest first
CachedVersions(stored, packageName) ==
    LET RECURSIVE Sorted(_)
        Sorted(versions) ==
            IF versions = {} THEN <<>>
            ELSE LET first == CHOOSE v \in versions :
                                  \A o \in versions : LocaleCompare(o, v, TRUE) <= 0
                 IN  <<first>> \o Sorted(versions \ {first})
    IN  Sorted({ stored[i].version : i \in { j \in 1..Len(stored) :
                                                stored[j].packageName = packageName } })

\* the entry getCacheStatus makes for one dependency
CacheStatusEntry(dependency, stored) ==
    LET cachedVersions == CachedVersions(stored, dependency.name)
        installedVersion == dependency.installed
        targetVersion == IF installedVersion # Null THEN installedVersion
                         ELSE NormalizeVersionFromSpecifier(dependency.spec)
        isTargetCached == targetVersion # Null /\ ArrayIncludes(cachedVersions, targetVersion)
    IN  IF IsWorkspaceSpecifier(dependency.spec)
        THEN [packageName |-> dependency.name, installedVersion |-> Null,
              targetVersion |-> Null, targetVersionSource |-> "workspace",
              cachedVersions |-> cachedVersions, isTargetCached |-> TRUE,
              isMissing |-> FALSE]
        ELSE [packageName |-> dependency.name, installedVersion |-> installedVersion,
              targetVersion |-> targetVersion,
              targetVersionSource |-> IF installedVersion # Null THEN "installed"
                                      ELSE IF targetVersion # Null THEN "declared-range"
                                      ELSE "unknown",
              cachedVersions |-> cachedVersions, isTargetCached |-> isTargetCached,
              isMissing |-> IF targetVersion # Null THEN ~isTargetCached
                            ELSE cachedVersions = <<>>]

\* getCacheStatus(cwd).packages in a project whose manifest is readable,
\* over what getStoredPackages gives
GetCacheStatus(project, stored) ==
    [i \in 1..Len(project.dependencies) |-> CacheStatusEntry(project.dependencies[i], stored)]

\* the group of a package name in groupedByPackage after its sort: the
\* entries of that name, the highest version first
RECURSIVE SortedDescending(_)
SortedDescending(entries) ==
    IF entries = {} THEN <<>>
    ELSE LET first == CHOOSE e \in entries :
                          \A o \in entries : LocaleCompare(o.version, e.version, TRUE) <= 0
         IN  <<first>> \o SortedDescending(entries \ {first})

\* (a variant whose sort compares the versions as plain texts)
GroupedByPackagePlain(stored) ==
    LET RECURSIVE Plain(_)
        Plain(es) ==
            IF es = {} THEN <<>>
            ELSE LET first == CHOOSE e \in es :
                                  \A o \in es : LocaleCompare(o.version, e.version, FALSE) <= 0
                 IN  <<first>> \o Plain(es \ {first})
    IN  [packageName \in { stored[i].packageName : i \in 1..Len(stored) } |->
            Plain({ stored[i] : i \in { j \in 1..Len(stored) :
                                          stored[j].packageName = packageName } })]

\* groupedByPackage after its sort: for every package name the entries of
\* that name, the highest version first
GroupedByPackage(stored) ==
    [packageName \in { stored[i].packageName : i \in 1..Len(stored) } |->
        SortedDescending({ stored[i] : i \in { j \in 1..Len(stored) :
                                                stored[j].packageName = packageName } })]

\* the key of keepReasons: `${packageName}@${version}`
ReasonKey(packageName, version) == packageName \o At \o version

\* the reasons of rule 1: entries.slice(0, keepLatest) of every group
KeepLatestReasons(stored, keepLatest) ==
    LET groupedByPackage == GroupedByPackage(stored)
    IN  IF keepLatest > 0
        THEN { [key |-> ReasonKey(entry.packageName, entry.version), reason |-> "keepLatest"] :
                 entry \in UNION { { groupedByPackage[name][n] :
                                       n \in 1..(IF keepLatest < Len(groupedByPackage[name])
                                                 THEN keepLatest
                                                 ELSE Len(groupedByPackage[name])) } :
                                   name \in DOMAIN groupedByPackage } }
        ELSE {}

\* the reasons of rule 2, and its warning: getProjectTargetVersions throws
\* when the manifest cannot be read
ProjectReasons(keepProjectDependencies, project) ==
    IF keepProjectDependencies /\ project.readable
    THEN { [key |-> ReasonKey(t.packageName, t.version), reason |-> "project-target-version"] :
             t \in GetProjectTargetVersions(project) }
    ELSE {}

ProjectWarnings(keepProjectDependencies, project) ==
    IF keepProjectDependencies /\ ~project.readable
    THEN << [kind |-> "project", reference |-> Null] >>
    ELSE <<>>

\* the reasons of rule 3, and its warnings, one for each reference that
\* does not parse
ExplicitReasons(keep) ==
    { [key |-> ReasonKey(ParsePackageVersionReference(keep[i]).packageName,
                         ParsePackageVersionReference(keep[i]).version),
       reason |-> "explicit-keep"] :
        i \in { j \in 1..Len(keep) : ParsePackageVersionReference(keep[j]) # NotParsed } }

RECURSIVE ExplicitWarnings(_)
ExplicitWarnings(keep) ==
    IF keep = <<>> THEN <<>>
    ELSE (IF ParsePackageVersionReference(keep[1]) = NotParsed
          THEN << [kind |-> "keep", reference |-> keep[1]] >> ELSE <<>>)
         \o ExplicitWarnings(Tail(keep))

\* keepReasons after the three rules, as the set of its [key, reason]
KeepReasons(stored, options, project) ==
    KeepLatestReasons(stored, IF options.keepLatest > 0 THEN options.keepLatest ELSE 0)
      \cup ProjectReasons(options.keepProjectDependencies, project)
      \cup ExplicitReasons(options.keep)

\* the entries of the last loop for whose key keepReasons holds nothing,
\* in the order of `stored`
Removed(stored, keepReasons) ==
    SelectSeq(stored, LAMBDA entry :
        \A r \in keepReasons : r.key # ReasonKey(entry.packageName, entry.version))

\* (a variant that removes what it finds also in a dry run)
PruneOutcomeNoDryRun(tree, options, project, stored, removed) ==
    [tree |-> { x \in tree : \A i \in 1..Len(removed) : ~Under(removed[i].outputDir, x.path) },
     stored |-> stored,
     result |-> [totalBefore |-> Len(stored),
                 totalAfter |-> Len(stored) - Len(removed),
                 removed |-> removed,
                 kept |-> Len(stored) - Len(removed),
                 dryRun |-> options.dryRun,
                 warnings |-> ProjectWarnings(options.keepProjectDependencies, project)
                                \o ExplicitWarnings(options.keep)]]

\* the last loop of pruneCache and its return: rm(entry.outputDir,
\* { recursive: true, force: true }) for every removed entry unless dryRun
PruneOutcome(tree, options, project, stored, removed) ==
    [tree |-> IF options.dryRun THEN tree
              ELSE { x \in tree :
                       \A i \in 1..Len(removed) : ~Under(removed[i].outputDir, x.path) },
     stored |-> stored,
     result |-> [totalBefore |-> Len(stored),
                 totalAfter |-> IF options.dryRun THEN Len(stored)
                                ELSE Len(stored) - Len(removed),
                 removed |-> removed,
                 kept |-> Len(stored) - Len(removed),
                 dryRun |-> options.dryRun,
                 warnings |-> ProjectWarnings(options.keepProjectDependencies, project)
                                \o ExplicitWarnings(options.keep)]]

\* pruneCache(cwd, options) over the store `tree`: the store it leaves, the
\* enumeration it worked on and the result it returns (stored, keepReasons
\* and removed are each computed once)
PruneCache(tree, sep, options, project) ==
    CHOOSE outcome \in
        UNION { UNION { { PruneOutcome(tree, options, project, stored, removed) :
                            removed \in { Removed(stored, keepReasons) } } :
                        keepReasons \in { KeepReasons(stored, options, project) } } :
                stored \in { GetStoredPackages(CollectStoredPackages(tree, sep)) } } : TRUE

\* the packages whose entries the store is followed with
StoreKeys ==
    [name : { <<"n">>, <<"@", "s", "/", "n">> },
     version : { <<"1", ".", "9", ".", "0">>, <<"1", ".", "1", "0", ".", "0">> }]

\* the options a prune is called with: keepLatest, keepProjectDependencies,
\* the keep list, dryRun
MsgKeepN190 == <<"n", "@", "1", ".", "9", ".", "0">>

MsgKeepScopedNoVersion == <<"@", "s", "/", "n">>

MsgKeepNoVersion == <<"n", "@">>

MsgKeepScoped1100 == <<"@", "s", "/", "n", "@", "1", ".", "1", "0", ".", "0">>

KeepLists ==
    { <<>>, <<MsgKeepN190>>,
      <<MsgKeepScopedNoVersion, MsgKeepNoVersion, MsgKeepScoped1100>> }

PruneOptions ==
    [keepLatest : {0, 1, 2}, keepProjectDependencies : BOOLEAN,
     keep : KeepLists, dryRun : BOOLEAN]

\* the projects a prune is called in: one without a readable manifest, and
\* one whose manifest names an installed package, a package that is not
\* installed and has a range, a package of the workspace, and one that is
\* not installed and has no range
MsgCaret190 == <<"^", "1", ".", "9", ".", "0">>

MsgLatest == <<"l", "a", "t", "e", "s", "t">>

NoProject == [readable |-> FALSE, dependencies |-> <<>>]

Projects ==
    { NoProject,
      [readable |-> TRUE,
       dependencies |-> << [name |-> <<"@", "s", "/", "n">>, spec |-> MsgCaret190,
                            installed |-> <<"1", ".", "1", "0", ".", "0">>],
                           [name |-> <<"n">>, spec |-> MsgCaret190, installed |-> Null],
                           [name |-> <<"w">>, spec |-> MsgWorkspaceSpec, installed |-> Null],
                           [name |-> <<"x">>, spec |-> MsgLatest, installed |-> Null] >>] }

NoOptions == [keepLatest |-> 1, keepProjectDependencies |-> TRUE, keep |-> <<>>,
              dryRun |-> FALSE]

NoPruned == [made |-> FALSE, options |-> NoOptions, project |-> NoProject, before |-> {},
             stored |-> <<>>,
             result |-> [totalBefore |-> 0, totalAfter |-> 0, removed |-> <<>>, kept |-> 0,
                         dryRun |-> FALSE, warnings |-> <<>>]]

\* what an archive unpacks to: its directories and files, relative to the
\* root that strip: 1 leaves
ArchiveTrees ==
    { { [path |-> << <<"s", "r", "c">> >>, kind |-> "dir"] },
      { [path |-> << <<"s", "r", "c">> >>, kind |-> "dir"],
        [path |-> << <<"s", "r", "c">>, <<"x", "@", "2">> >>, kind |-> "dir"] },
      { [path |-> << <<"i", "@", "2">> >>, kind |-> "file"],
        [path |-> << <<"l", "@", "2">> >>, kind |-> "broken"] } }

\* the name mkdtemp(path.join(storeDir, '.tmp-')) gives
TempPath == << <<".", "t", "m", "p", "-", "x">> >>

SdOff == [sep |-> "/", tree |-> {}, installed |-> {}, acquiring |-> <<>>,
          listed |-> FALSE, got |-> <<>>, pruned |-> NoPruned]

\* an acquisition for a key, from its stat to the extraction: a hit when a
\* directory stands at the final path, else the final path is removed, its
\* parents are made, and the archive is unpacked into a temp directory
\* (the record of a prune is dropped by the listing that follows it, and
\* acquisitions go on from there)
StoreAcquire ==
    /\ sd.acquiring = <<>>
    /\ ~sd.pruned.made
    /\ \E k \in StoreKeys, content \in ArchiveTrees :
        LET outputDir == GetStoredPackagePath(k.name, k.version)
        IN  IF [path |-> outputDir, kind |-> "dir"] \in sd.tree
            THEN sd' = [sd EXCEPT !.installed = @ \cup {k},
                                  !.listed = FALSE, !.got = <<>>, !.pruned = NoPruned]
            ELSE sd' = [sd EXCEPT !.tree = TreeMakeParents(TreeRemove(@, outputDir), outputDir)
                                              \cup TreeAt(TempPath, content),
                                  !.acquiring = <<k>>,
                                  !.listed = FALSE, !.got = <<>>, !.pruned = NoPruned]
    /\ UNCHANGED <<tagVars, fetchVars, acqVars, ln, rp, view>>

\* its end: the temp directory is renamed onto the final path, or removed
\* after a failure
StoreAcquireEnd ==
    /\ sd.acquiring # <<>>
    /\ \E renamed \in BOOLEAN :
        LET k == sd.acquiring[1]
            outputDir == GetStoredPackagePath(k.name, k.version)
        IN  sd' = [sd EXCEPT !.tree = IF renamed THEN TreeRename(@, TempPath, outputDir)
                                      ELSE TreeRemove(@, TempPath),
                             !.installed = IF renamed THEN @ \cup {k} ELSE @,
                             !.acquiring = <<>>,
                             !.listed = FALSE, !.got = <<>>, !.pruned = NoPruned]
    /\ UNCHANGED <<tagVars, fetchVars, acqVars, ln, rp, view>>

\* a call of pruneCache(cwd, options), between acquisitions and after a
\* look at the list: sd.pruned keeps its arguments, the store it found, what
\* its getStoredPackages gave and the result it returned
StorePrune ==
    /\ sd.acquiring = <<>>
    /\ sd.listed
    /\ \E options \in PruneOptions, project \in Projects :
        /\ ~options.keepProjectDependencies => project = NoProject
        /\ \E r \in { PruneCache(sd.tree, sd.sep, options, project) } :
               sd' = [sd EXCEPT
                        !.tree = r.tree,
                        !.installed = { k \in @ :
                            [path |-> GetStoredPackagePath(k.name, k.version), kind |-> "dir"]
                                \in r.tree },
                        !.listed = FALSE, !.got = <<>>,
                        !.pruned = [made |-> TRUE, options |-> options, project |-> project,
                                    before |-> sd.tree, stored |-> r.stored,
                                    result |-> r.result]]
    /\ UNCHANGED <<tagVars, fetchVars, acqVars, ln, rp, view>>

\* a call of getStoredPackages(storeDir)
StoreList ==
    /\ ~sd.listed
    /\ sd' = [sd EXCEPT !.listed = TRUE,
                        !.got = GetStoredPackages(CollectStoredPackages(sd.tree, sd.sep)),
                        !.pruned = NoPruned]
    /\ UNCHANGED <<tagVars, fetchVars, acqVars, ln, rp, view>>

----------------------------------------------------------------------------
(* The repository locator: parseRepositoryUrl and                          *)
(* normalizeRepositoryToHttpsRepo (repo-resolver.ts)                       *)

\* the one element of a set of one element
TheOne(S) == CHOOSE r \in S : TRUE

\* String.prototype.indexOf for one character, counted from 1 (0: none)
IndexOf(text, ch) ==
    IF \A i \in 1..Len(text) : text[i] # ch THEN 0
    ELSE CHOOSE i \in 1..Len(text) : text[i] = ch /\ \A j \in 1..(i - 1) : text[j] # ch

\* text from its i-th character on
From(text, i) == SubSeq(text, i, Len(text))

\* String.prototype.endsWith
EndsWith(s, p) ==
    /\ Len(p) <= Len(s)
    /\ SubSeq(s, Len(s) - Len(p) + 1, Len(s)) = p

\* s with its trailing white space dropped
RECURSIVE TrimEnd(_)
TrimEnd(s) ==
    IF s # <<>> /\ s[Len(s)] = " " THEN TrimEnd(SubSeq(s, 1, Len(s) - 1)) ELSE s

\* String.prototype.trim
Trim(s) == TrimEnd(TrimStart(s))

MsgGitPlus == <<"g", "i", "t", "+">>

MsgDotGit == <<".", "g", "i", "t">>

\* .replace(/^git\+/, '')
StripGitPlus(s) == IF StartsWith(s, MsgGitPlus) THEN From(s, Len(MsgGitPlus) + 1) ELSE s

\* .replace(/#.*$/, '')
StripFragment(s) ==
    TheOne({ IF at = 0 THEN s ELSE SubSeq(s, 1, at - 1) : at \in { IndexOf(s, "#") } })

\* .replace(/\/+$/g, '')
RECURSIVE StripTrailingSlashes(_)
StripTrailingSlashes(s) ==
    IF s # <<>> /\ s[Len(s)] = "/" THEN StripTrailingSlashes(SubSeq(s, 1, Len(s) - 1)) ELSE s

\* .replace(/\.git$/i, '')
StripDotGit(s) ==
    IF EndsWith(ToLowerCase(s), MsgDotGit) THEN SubSeq(s, 1, Len(s) - Len(MsgDotGit)) ELSE s

\* cleanRepoName: the trailing .git goes first, then the trailing slashes
CleanRepoName(repo) == StripTrailingSlashes(StripDotGit(repo))

Hosts == {"github", "gitlab", "bitbucket"}

\* the text of a host's name
HostText(host) ==
    CASE host = "github" -> <<"g", "i", "t", "h", "u", "b">>
      [] host = "gitlab" -> <<"g", "i", "t", "l", "a", "b">>
      [] host = "bitbucket" -> <<"b", "i", "t", "b", "u", "c", "k", "e", "t">>

MsgWww == <<"w", "w", "w", ".">>

MsgDotCom == <<".", "c", "o", "m">>

MsgDotOrg == <<".", "o", "r", "g">>

\* inferHost: the host of a hostname, "none" for null
InferHost(hostname) ==
    LET lower == ToLowerCase(hostname)
        normalized == IF StartsWith(lower, MsgWww) THEN From(lower, Len(MsgWww) + 1) ELSE lower
        named == { h \in Hosts : normalized \in { HostText(h), HostText(h) \o MsgDotCom,
                                                   HostText(h) \o MsgDotOrg } }
    IN  IF named = {} THEN "none" ELSE CHOOSE h \in named : TRUE

\* parseOwnerRepo
ParseOwnerRepo(host, owner, repo, directory) ==
    [host |-> host, owner |-> owner, repo |-> CleanRepoName(repo), directory |-> directory]

\* "([^/]+)/([^#]+)$" on a text without "#": the owner up to the first "/",
\* the repo after it, neither empty
OwnerAndRepo(text) ==
    TheOne({ IF slash <= 1 \/ slash = Len(text)
             THEN [matched |-> FALSE, owner |-> <<>>, repo |-> <<>>]
             ELSE [matched |-> TRUE, owner |-> SubSeq(text, 1, slash - 1),
                   repo |-> From(text, slash + 1)] :
             slash \in { IndexOf(text, "/") } })

\* the match of ":([^/]+)/([^#]+)$" after a host
ColonMatch(host, rest) ==
    IF rest # <<>> /\ rest[1] = ":" /\ OwnerAndRepo(Tail(rest)).matched
    THEN [matched |-> TRUE, host |-> host, owner |-> OwnerAndRepo(Tail(rest)).owner,
          repo |-> OwnerAndRepo(Tail(rest)).repo]
    ELSE [matched |-> FALSE, host |-> "none", owner |-> <<>>, repo |-> <<>>]

\* the match of "(?:.com|.org)" and what follows, "." being any character
TailMatch(host, after) ==
    IF Len(after) >= 4 /\ SubSeq(after, 2, 4) \in { Tail(MsgDotCom), Tail(MsgDotOrg) }
    THEN ColonMatch(host, From(after, 5))
    ELSE [matched |-> FALSE, host |-> "none", owner |-> <<>>, repo |-> <<>>]

\* the match of '^<lead>(github|gitlab|bitbucket)<tail>:([^/]+)/([^#]+)$',
\* the tail being "" (shorthand) or "(?:.com|.org)"
HostColonMatch(text, lead, withTail) ==
    IF \A h \in Hosts : ~StartsWith(text, lead \o HostText(h))
    THEN [matched |-> FALSE, host |-> "none", owner |-> <<>>, repo |-> <<>>]
    ELSE TheOne({ IF withTail
                  THEN TailMatch(h, From(text, Len(lead) + Len(HostText(h)) + 1))
                  ELSE ColonMatch(h, From(text, Len(lead) + Len(HostText(h)) + 1)) :
                  h \in { g \in Hosts : StartsWith(text, lead \o HostText(g)) } })

\* [A-Za-z0-9_.-]
BareChars ==
    { Upper[i] : i \in 1..26 } \cup { Lower[i] : i \in 1..26 }
      \cup { "0", "1", "2", "3", "4", "5", "6", "7", "8", "9", "_", ".", "-" }

\* the match of '^([A-Za-z0-9_.-]+)/([A-Za-z0-9_.-]+)$'
BareGithubMatch(text) ==
    TheOne({ IF /\ pair.matched
                /\ \A i \in 1..Len(pair.owner) : pair.owner[i] \in BareChars
                /\ \A i \in 1..Len(pair.repo) : pair.repo[i] \in BareChars
             THEN pair
             ELSE [matched |-> FALSE, owner |-> <<>>, repo |-> <<>>] :
             pair \in { OwnerAndRepo(text) } })

MsgGitAt == <<"g", "i", "t", "@">>

MsgSshGitAt == <<"s", "s", "h", ":", "/", "/", "g", "i", "t", "@">>

\* the characters of a URL scheme
SchemeChars == (BareChars \ {"_"}) \cup {"+"}

\* the schemes whose URLs always have a host
SpecialSchemes == { <<"h", "t", "t", "p">>, <<"h", "t", "t", "p", "s">>, <<"f", "t", "p">>, <<"w", "s">>, <<"w", "s", "s">> }

\* text without its leading slashes: .replace(/^\/+/, '')
RECURSIVE StripLeadingSlashes(_)
StripLeadingSlashes(s) ==
    IF s # <<>> /\ s[1] = "/" THEN StripLeadingSlashes(Tail(s)) ELSE s

\* text up to the first ch, all of it when it has none
Before(text, ch) ==
    TheOne({ IF at = 0 THEN text ELSE SubSeq(text, 1, at - 1) : at \in { IndexOf(text, ch) } })

\* where the path of a URL starts in what follows its scheme and slashes
PathAt(body) ==
    IF \A i \in 1..Len(body) : body[i] \notin {"/", "?"} THEN Len(body) + 1
    ELSE CHOOSE i \in 1..Len(body) :
             body[i] \in {"/", "?"} /\ \A j \in 1..(i - 1) : body[j] \notin {"/", "?"}

\* the hostname of an authority: less the user information and the port
Hostname(authority) == Before(From(authority, LastIndexOf(authority, "@") + 2), ":")

\* new URL(text) once the scheme is read: it throws when the text has no
\* scheme, or a special scheme and no host; the hostname is what stands
\* between "//" and the path; the pathname ends at "?"
UrlOf(hasScheme, special, hasAuthority, body) ==
    TheOne({ IF ~hasScheme \/ (special /\ part.hostname = <<>>)
             THEN [threw |-> TRUE, hostname |-> <<>>, pathname |-> <<>>]
             ELSE [threw |-> FALSE, hostname |-> part.hostname,
                   pathname |-> IF special /\ part.path = <<>> THEN <<"/">> ELSE part.path] :
             part \in { IF hasAuthority
                        THEN [hostname |-> Hostname(SubSeq(body, 1, PathAt(body) - 1)),
                              path |-> Before(From(body, PathAt(body)), "?")]
                        ELSE [hostname |-> <<>>, path |-> Before(body, "?")] } })

\* the scheme of a URL is well formed
HasScheme(scheme) ==
    /\ scheme # <<>>
    /\ \A i \in 1..Len(scheme) : scheme[i] \in SchemeChars
    /\ scheme[1] \in { Lower[i] : i \in 1..26 }

\* new URL(text), for a text without "#" and a path without "." and ".."
\* segments
ParseUrl(text) ==
    TheOne({ UrlOf(HasScheme(scheme), scheme \in SpecialSchemes,
                   StartsWith(after, <<"/", "/">>) \/ scheme \in SpecialSchemes,
                   IF scheme \in SpecialSchemes THEN StripLeadingSlashes(after)
                   ELSE IF StartsWith(after, <<"/", "/">>) THEN From(after, 3) ELSE after) :
             scheme \in { ToLowerCase(SubSeq(text, 1, IndexOf(text, ":") - 1)) },
             after \in { From(text, IndexOf(text, ":") + 1) } })

\* the last arm of parseRepositoryUrl: a full URL
ParseFullUrl(normalizedUrl, directory) ==
    TheOne({ IF parsed.threw \/ InferHost(parsed.hostname) = "none" THEN NoRepo
             ELSE TheOne({ IF Len(parts) < 2 THEN NoRepo
                           ELSE IF parts[1] = <<>> \/ parts[2] = <<>> THEN NoRepo
                           ELSE ParseOwnerRepo(InferHost(parsed.hostname), parts[1],
                                               parts[2], directory) :
                           parts \in { Split(StripLeadingSlashes(parsed.pathname), "/") } }) :
             parsed \in { ParseUrl(normalizedUrl) } })

\* parseRepositoryUrl after the url is normalized: the first arm that matches
ParseNormalizedUrl(normalizedUrl, directory) ==
    TheOne({ IF shorthandMatch.matched
             THEN ParseOwnerRepo(shorthandMatch.host, shorthandMatch.owner,
                                 shorthandMatch.repo, directory)
             ELSE IF bareGithubMatch.matched
             THEN ParseOwnerRepo("github", bareGithubMatch.owner, bareGithubMatch.repo,
                                 directory)
             ELSE IF scpMatch.matched
             THEN ParseOwnerRepo(scpMatch.host, scpMatch.owner, scpMatch.repo, directory)
             ELSE IF sshColonMatch.matched
             THEN ParseOwnerRepo(sshColonMatch.host, sshColonMatch.owner,
                                 sshColonMatch.repo, directory)
             ELSE ParseFullUrl(normalizedUrl, directory) :
             shorthandMatch \in { HostColonMatch(normalizedUrl, <<>>, FALSE) },
             bareGithubMatch \in { BareGithubMatch(normalizedUrl) },
             scpMatch \in { HostColonMatch(normalizedUrl, MsgGitAt, TRUE) },
             sshColonMatch \in { HostColonMatch(normalizedUrl, MsgSshGitAt, TRUE) } })

\* parseRepositoryUrl, given the url of the field (Null: no field, or a
\* field without url) and its directory: NoRepo for null
ParseRepositoryUrl(url, directory) ==
    IF url = Null THEN NoRepo
    ELSE TheOne({ ParseNormalizedUrl(normalizedUrl, directory) :
                  normalizedUrl \in { StripFragment(StripGitPlus(Trim(url))) } })

\* toHttpsRepositoryUrl
ToHttpsRepositoryUrl(repo) ==
    (CASE repo.host = "github" -> <<"h", "t", "t", "p", "s", ":", "/", "/", "g", "i", "t", "h", "u", "b", ".", "c", "o", "m", "/">>
       [] repo.host = "gitlab" -> <<"h", "t", "t", "p", "s", ":", "/", "/", "g", "i", "t", "l", "a", "b", ".", "c", "o", "m", "/">>
       [] repo.host = "bitbucket" -> <<"h", "t", "t", "p", "s", ":", "/", "/", "b", "i", "t", "b", "u", "c", "k", "e", "t", ".", "o", "r", "g", "/">>)
      \o repo.owner \o <<"/">> \o repo.repo

\* normalizeRepositoryToHttpsRepo: the descriptor parsed again from its own
\* HTTPS URL (NoRepo for null)
NormalizeRepositoryToHttpsRepo(url, directory) ==
    TheOne({ IF parsed = NoRepo THEN NoRepo
             ELSE ParseRepositoryUrl(ToHttpsRepositoryUrl(parsed), parsed.directory) :
             parsed \in { ParseRepositoryUrl(url, directory) } })

\* the domain a host's URLs are written with
HostDomain(host) ==
    CASE host = "github" -> <<"g", "i", "t", "h", "u", "b", ".", "c", "o", "m">>
      [] host = "gitlab" -> <<"g", "i", "t", "l", "a", "b", ".", "c", "o", "m">>
      [] host = "bitbucket" -> <<"b", "i", "t", "b", "u", "c", "k", "e", "t", ".", "o", "r", "g">>

Shapes == {"https", "git+https", "scp", "shorthand", "bare"}

\* what may follow the repository's name in a field
Decorations == [git : BOOLEAN, slash : BOOLEAN, fragment : BOOLEAN]

\* the repositories the fields under test denote
Descriptors ==
    [host : Hosts, owner : { <<"o">>, <<"O", "-", "1">> },
     repo : { <<"r">>, <<"r", ".", "j", "s">> }]

\* the text of a repository field of one shape for one repository
FieldText(shape, d, decoration) ==
    LET path == d.owner \o <<"/">> \o d.repo
                  \o (IF decoration.git THEN MsgDotGit ELSE <<>>)
                  \o (IF decoration.slash THEN <<"/">> ELSE <<>>)
                  \o (IF decoration.fragment THEN <<"#", "f">> ELSE <<>>)
        https == <<"h", "t", "t", "p", "s", ":", "/", "/">> \o HostDomain(d.host) \o <<"/">> \o path
    IN  CASE shape = "https" -> https
          [] shape = "git+https" -> MsgGitPlus \o https
          [] shape = "scp" -> MsgGitAt \o HostDomain(d.host) \o <<":">> \o path
          [] shape = "shorthand" -> HostText(d.host) \o <<":">> \o path
          [] shape = "bare" -> path

RpOff ==
    [made |-> FALSE, shape |-> "none", decoration |-> [git |-> FALSE, slash |-> FALSE, fragment |-> FALSE],
     want |-> NoRepo, url |-> Null, parsed |-> NoRepo, normalized |-> NoRepo]

\* the fields under test: every shape of every repository (the bare shape
\* for GitHub only), with and without a directory
LocatorInit ==
    \E shape \in Shapes, d \in Descriptors, decoration \in Decorations,
       directory \in { Null, <<"p", "k", "g">> } :
        /\ shape = "bare" => d.host = "github"
        /\ rp = [made |-> FALSE, shape |-> shape, decoration |-> decoration,
                 want |-> [host |-> d.host, owner |-> d.owner, repo |-> d.repo,
                           directory |-> directory],
                 url |-> FieldText(shape, d, decoration),
                 parsed |-> NoRepo, normalized |-> NoRepo]

\* one call of each function on the field
LocatorCall ==
    /\ ~rp.made
    /\ rp' = [rp EXCEPT !.made = TRUE,
                        !.parsed = ParseRepositoryUrl(rp.url, rp.want.directory),
                        !.normalized = NormalizeRepositoryToHttpsRepo(rp.url, rp.want.directory)]
    /\ UNCHANGED <<tagVars, fetchVars, acqVars, storeVars, view>>

----------------------------------------------------------------------------
(* The callers: pullPackageForProject and ensurePackageSourceFromInstalled *)

MsgRangeSpec == <<"^", "1", ".", "0">>

\* the arguments of a call: which function, the package (with the version
\* installed for it), the declared specifier (Null: not given), the cwd
CallInputs ==
    { in \in [api : {"pull", "ensure"}, key : {TypesKey},
               declaredSpec : {Null, MsgWorkspaceSpec, MsgRangeSpec}, cwdHome : BOOLEAN] :
        in.api = "ensure" => in.declaredSpec = Null }

NoInput == [api |-> "none", key |-> TypesKey, cwdHome |-> FALSE]

NoUrl == [site |-> "none", template |-> "", owner |-> <<>>, repo |-> <<>>, ref |-> <<>>]

NoResult == [packageName |-> Null, status |-> "none", fromCache |-> "undefined",
             skipReason |-> "undefined", error |-> NoError]

LocInit ==
    [isLocalSource |-> FALSE, repo |-> NoRepo, tag |-> Null, usedFallback |-> FALSE,
     stage |-> "none",
     idx |-> 0, url |-> NoUrl, err |-> NoError, lastError |-> NoError,
     attempts |-> <<>>, existed |-> FALSE, res |-> NoResult]

LogInit == [reqs |-> <<>>, gits |-> <<>>, prog |-> <<>>, writes |-> <<>>]

\* no package.json has been read
NoPackageJson == <<>>

\* no run of syncProjectDependencies
NoBatch == [json |-> NoPackageJson, deps |-> <<>>, state |-> "none", results |-> <<>>]

Update(status, fromCache, skipReason) ==
    [status |-> status, fromCache |-> fromCache, skipReason |-> skipReason]

\* (a variant that puts the update before those already made)
ReportFirst(l, api, update) ==
    IF api = "pull" THEN [l EXCEPT !.prog = <<update>> \o @] ELSE l

\* reportProgress(update): pullPackageForProject only
Report(l, api, update) ==
    IF api = "pull" THEN [l EXCEPT !.prog = Append(@, update)] ELSE l

Wrote(l, op, target) == [l EXCEPT !.writes = Append(@, [op |-> op, target |-> target])]

\* what fetch() gives the successive requests of one fetchWithRetry call of
\* an acquisition
AcqTransports ==
    { << Response(200, TRUE) >>,
      << Response(200, FALSE) >>,
      << Response(404, TRUE) >>,
      << Response(403, TRUE) >>,
      << Response(503, TRUE), Response(200, TRUE) >>,
      << Response(503, TRUE), Response(503, TRUE), Response(503, TRUE) >>,
      << Error(MsgECONNRESET), Response(404, TRUE) >>,
      << Error(MsgECONNRESET), Error(MsgECONNRESET), Error(MsgECONNRESET) >>,
      << Error(MsgBadUrl) >> }

\* and those of the registry request
RegistryTransports ==
    { << Response(200, TRUE) >>,
      << Response(404, TRUE) >>,
      << Error(MsgECONNRESET), Error(MsgECONNRESET), Error(MsgECONNRESET) >> }

\* a whole call of fetchWithRetry against the outcomes outs, in order:
\* the fetch state it ends in
RECURSIVE FetchWithRetryFrom(_, _, _)
FetchWithRetryFrom(s, outs, i) ==
    IF s.st = "delay" THEN FetchWithRetryFrom(FetchDelayStep(s), outs, i)
    ELSE IF FetchDone(s) \/ i > Len(outs) THEN s
    ELSE FetchWithRetryFrom(FetchAttemptStep(s, outs[i]), outs, i + 1)

FetchWithRetry(outs) == FetchWithRetryFrom(FetchStart, outs, 1)

----------------------------------------------------------------------------
(* Steps of a call. A step is the completion of one await together with    *)
(* the code that runs after it up to the next await.                       *)

Key(p) == inp[p].key

Api(p) == inp[p].api

\* the call ends with `res`, reporting `update` (the return statements, and
\* the catch block of pullPackageForProject)
Finish(p, l, lg, res, update) ==
    /\ pc' = [pc EXCEPT ![p] = "done"]
    /\ loc' = [loc EXCEPT ![p] = [l EXCEPT !.res = [res EXCEPT !.packageName = Key(p).name]]]
    /\ log' = [log EXCEPT ![p] = Report(lg, Api(p), update)]

\* (a variant in which no caller catches the error)
FailRejects(p, l, lg, error) ==
    Finish(p, l, lg, [NoResult EXCEPT !.status = "rejected", !.error = error],
           Update("error", "undefined", "undefined"))

\* an error leaves the function: pullPackageForProject catches it and
\* returns status error; ensurePackageSourceFromInstalled rejects
Fail(p, l, lg, error) ==
    Finish(p, l, lg,
           [NoResult EXCEPT !.status = IF Api(p) = "pull" THEN "error" ELSE "rejected",
                            !.error = error],
           Update("error", "undefined", "undefined"))

Skipped(reason) == [NoResult EXCEPT !.status = "skipped", !.skipReason = reason]

\* (a variant whose result does not carry the flag)
CompleteUnflagged(fromCache) == [NoResult EXCEPT !.status = "complete"]

Complete(fromCache) == [NoResult EXCEPT !.status = "complete", !.fromCache = fromCache]

\* a call with the arguments `in`, up to its first await
\* (resolveInstalledPackageFromCwd): the declared specifier is read here and
\* nowhere later. Gives where the call stands, its locals and its log.
Begin(in) ==
    IF /\ in.api = "pull"
       /\ in.declaredSpec # Null
       /\ IsWorkspaceSpecifier(in.declaredSpec)
    THEN [pc |-> "done",
          loc |-> [LocInit EXCEPT !.res = [Skipped("workspace") EXCEPT
                                             !.packageName = in.key.name]],
          log |-> Report(LogInit, in.api, Update("skipped", "undefined", "workspace"))]
    ELSE [pc |-> "resolve",
          loc |-> LocInit,
          log |-> Report(LogInit, in.api, Update("fetching", "undefined", "undefined"))]

\* a caller makes a call
StartCall(p) ==
    /\ pc[p] = "idle"
    /\ \E in \in CallInputs :
        /\ inp' = [inp EXCEPT ![p] = [api |-> in.api, key |-> in.key,
                                      cwdHome |-> in.cwdHome]]
        /\ pc' = [pc EXCEPT ![p] = Begin(in).pc]
        /\ loc' = [loc EXCEPT ![p] = Begin(in).loc]
        /\ log' = [log EXCEPT ![p] = Begin(in).log]
    /\ UNCHANGED <<hits, fs, batch, tagVars, fetchVars, storeVars, rp, view>>

\* what resolveInstalledPackageFromCwd gives: it throws, or the installed
\* package with its repository field already located (NoRepo: none usable)
InstalledOutcomes ==
    { [ok |-> FALSE, isLocalSource |-> FALSE, repository |-> NoRepo] }
      \cup { [ok |-> TRUE, isLocalSource |-> TRUE, repository |-> NoRepo] }
      \cup { [ok |-> TRUE, isLocalSource |-> FALSE, repository |-> r] :
                r \in Repos \cup {NoRepo} }

\* what "git ls-remote --tags" lists for the repository of a key
AcqListings(k) ==
    { [ok |-> FALSE, tags |-> <<>>],
      [ok |-> TRUE, tags |-> <<>>],
      [ok |-> TRUE, tags |-> << <<"z">>, <<"v">> \o k.version >>],
      [ok |-> TRUE, tags |-> << <<"z">> >>] }

DEPENDENCY_SOURCE_PROPERTIES ==
    <<"dependencies", "devDependencies", "optionalDependencies", "peerDependencies">>

\* dependenciesByName.set(name, dependency): a name already set keeps its
\* place and takes the new value
MapSet(entries, dependency) ==
    IF \E i \in DOMAIN entries : entries[i].name = dependency.name
    THEN [i \in DOMAIN entries |->
            IF entries[i].name = dependency.name THEN dependency ELSE entries[i]]
    ELSE Append(entries, dependency)

\* for (const [name, spec] of Object.entries(sourceDependencies))
RECURSIVE SetGroup(_, _, _)
SetGroup(entries, sourceDependencies, sourceProperty) ==
    IF sourceDependencies = <<>> THEN entries
    ELSE SetGroup(MapSet(entries, [name |-> Head(sourceDependencies).name,
                                   spec |-> Head(sourceDependencies).spec,
                                   source |-> sourceProperty]),
                  Tail(sourceDependencies), sourceProperty)

\* for (const sourceProperty of DEPENDENCY_SOURCE_PROPERTIES), the first n
RECURSIVE DependenciesByName(_, _)
DependenciesByName(packageJson, n) ==
    IF n = 0 THEN <<>>
    ELSE SetGroup(DependenciesByName(packageJson, n - 1), packageJson[n],
                  DEPENDENCY_SOURCE_PROPERTIES[n])

\* .sort((a, b) => a.name.localeCompare(b.name)): a stable sort
RECURSIVE SortedByName(_)
SortedByName(entries) ==
    IF entries = <<>> THEN <<>>
    ELSE LET first == CHOOSE i \in DOMAIN entries :
                 /\ \A j \in DOMAIN entries :
                        LocaleCompare(entries[j].name, entries[i].name, FALSE) >= 0
                 /\ \A j \in 1..(i - 1) :
                        LocaleCompare(entries[j].name, entries[i].name, FALSE) # 0
         IN  <<entries[first]>> \o
             SortedByName(SubSeq(entries, 1, first - 1) \o
                          SubSeq(entries, first + 1, Len(entries)))

\* (a variant that keeps every declaration of every group)
GetProjectDependenciesEveryEntry(packageJson) ==
    SortedByName(packageJson[1] \o packageJson[2] \o packageJson[3] \o packageJson[4])

\* getProjectDependencies(cwd), from the package.json it has read: a group
\* is the entries of its object in their order, an absent group has none
GetProjectDependencies(packageJson) ==
    SortedByName(DependenciesByName(packageJson, Len(DEPENDENCY_SOURCE_PROPERTIES)))

\* the package.json files of the projects a sync runs in: two packages
\* declared once each, and declared again in a later group
PackageJsons ==
    LET types == TypesKey.name
        plain == PlainKey.name
        range(name) == [name |-> name, spec |-> MsgRangeSpec]
        workspace(name) == [name |-> name, spec |-> MsgWorkspaceSpec]
        spelled(name) == [name |-> name, spec |-> MsgWorkspaceSpelled]
    IN { << <<range(plain), range(types)>>, <<>>, <<>>, <<>> >>,
         << <<workspace(types)>>, <<range(plain)>>, <<>>, <<>> >>,
         << <<range(types)>>, <<>>, <<>>, <<spelled(plain)>> >>,
         << <<workspace(plain), workspace(types)>>, <<range(types)>>, <<>>,
            <<range(types)>> >>,
         << <<range(plain)>>, <<range(types), workspace(plain)>>, <<>>, <<>> >>,
         << <<>>, <<workspace(types)>>, <<workspace(plain), range(types)>>,
            <<workspace(types), range(plain)>> >> }

\* the version installed in the project for a package
InstalledKey(name) == CHOOSE k \in Keys : k.name = name

\* the packages named to executePullAction: no specifier; a package may be
\* named twice
SyncDependencies == { <<a, a>> : a \in [key : Keys, spec : {Null}] }

\* a sync run is followed against fewer outcomes of its environment: a
\* package is not installed, is a local source, or names its repository, the
\* shared types monorepo (owner in lower case) or a plain one
SyncInstalled ==
    { [ok |-> FALSE, isLocalSource |-> FALSE, repository |-> NoRepo],
      [ok |-> TRUE, isLocalSource |-> TRUE, repository |-> NoRepo] } \cup
    { [ok |-> TRUE, isLocalSource |-> FALSE, repository |-> r] :
        r \in { [host |-> "github", owner |-> ToLowerCase(MsgDefinitelyTyped),
                 repo |-> MsgDefinitelyTyped, directory |-> Null],
                [host |-> "github", owner |-> <<"o">>, repo |-> <<"r">>,
                 directory |-> Null] } }

\* the listing fails, or holds the version's tag
SyncListings(k) ==
    { [ok |-> FALSE, tags |-> <<>>],
      [ok |-> TRUE, tags |-> << <<"z">>, <<"v">> \o k.version >>] }

\* an archive is served, or is not there
SyncTransports == { << Response(200, TRUE) >>, << Response(404, TRUE) >> }

\* "await resolveInstalledPackageFromCwd" settles; the stat is issued
ResolveInstalled(p) ==
    /\ pc[p] = "resolve"
    /\ \E installed \in IF batch = NoBatch THEN InstalledOutcomes ELSE SyncInstalled :
        IF ~installed.ok
        THEN Fail(p, loc[p], log[p], MkError(MsgNotResolved, "resolve"))
        ELSE /\ pc' = [pc EXCEPT ![p] = "stat"]
             /\ loc' = [loc EXCEPT ![p].isLocalSource = installed.isLocalSource,
                                   ![p].repo = installed.repository]
             /\ log' = [log EXCEPT ![p] =
                           Report(@, Api(p), Update("undefined", "undefined", "undefined"))]
    /\ UNCHANGED <<inp, hits, fs, batch, tagVars, fetchVars, storeVars, rp, view>>

\* (a variant that goes to the tag archive whenever there is a tag)
DownloadDispatchTagFirst(l) ==
    IF l.tag # Null
    THEN [l EXCEPT !.stage = "tag", !.url = GetTagTarballUrl(l.repo, l.tag)]
    ELSE IF l.repo.directory # Null
    THEN [l EXCEPT !.stage = "sparse", !.idx = 1]
    ELSE [l EXCEPT !.stage = "fallback", !.idx = 1,
                   !.url = GetDefaultBranchTarballUrls(l.repo)[1]]

\* downloadRepositorySource up to its first await: which strategy is first
DownloadDispatch(l) ==
    IF l.repo.directory # Null
    THEN [l EXCEPT !.stage = "sparse", !.idx = 1]
    ELSE IF l.tag # Null
    THEN [l EXCEPT !.stage = "tag", !.url = GetTagTarballUrl(l.repo, l.tag)]
    ELSE [l EXCEPT !.stage = "fallback", !.idx = 1,
                   !.url = GetDefaultBranchTarballUrls(l.repo)[1]]

FirstDownloadStep(l) == IF l.stage = "sparse" THEN "sp_rm" ELSE "de_rm"

\* the stat of the entry settles: packageExists, and what follows it for a
\* local source and for a repository known from the installed package
StatEntry(p) ==
    /\ pc[p] = "stat"
    /\ IF IsDirectory(fs.entry[Key(p)])
       THEN /\ pc' = [pc EXCEPT ![p] = "linkHit"]
            /\ loc' = [loc EXCEPT ![p].existed = TRUE]
            /\ log' = log
       ELSE IF loc[p].isLocalSource
       THEN IF Api(p) = "pull"
            THEN Finish(p, loc[p], log[p], Skipped("workspace"),
                        Update("skipped", "undefined", "workspace"))
            ELSE Finish(p, loc[p], log[p], Complete("false"),
                        Update("undefined", "undefined", "undefined"))
       ELSE /\ pc' = [pc EXCEPT ![p] = IF loc[p].repo = NoRepo THEN "registry"
                                       ELSE "tagLookup"]
            /\ UNCHANGED <<loc, log>>
    /\ UNCHANGED <<inp, hits, fs, batch, tagVars, fetchVars, storeVars, rp, view>>

\* the cache hit: "await ensureProjectPackageLink" and the return
LinkHit(p) ==
    /\ pc[p] = "linkHit"
    /\ LET r == EnsureProjectPackageLink(fs, Key(p), inp[p].cwdHome)
       IN  /\ fs' = r.fs
           /\ IF r.threw
              THEN Fail(p, loc[p], log[p], MkError(MsgCacheMissing, "link"))
              ELSE Finish(p, loc[p], log[p], Complete("true"),
                          Update("complete", "true", "undefined"))
    /\ UNCHANGED <<inp, hits, batch, tagVars, fetchVars, storeVars, rp, view>>

\* what the registry document holds for the version: nothing, or a
\* repository field (NoRepo: none usable)
RegistryDocs ==
    { [hasVersion |-> FALSE, repository |-> NoRepo] }
      \cup { [hasVersion |-> TRUE, repository |-> r] : r \in Repos \cup {NoRepo} }

\* the requests of one fetchWithRetry call, appended to the call's log
Requested(lg, url, s) ==
    [lg EXCEPT !.reqs = @ \o [i \in 1..RequestCount(s.events) |-> url]]

\* (a variant without the catch around fetchPackageMetadata: a lookup that
\* fails ends the call with its error)
FetchMetadataUncaught(p) ==
    /\ pc[p] = "registry"
    /\ \E outs \in RegistryTransports, doc \in RegistryDocs :
        LET s == FetchWithRetry(outs)
            lg == Requested(log[p], RegistryUrl(Key(p).name), s)
            got == s.st = "returned" /\ ResponseOk(s.result) /\ doc.hasVersion
            repo == IF got THEN doc.repository ELSE NoRepo
            l == [loc[p] EXCEPT !.repo = repo]
        IN  /\ FetchDone(s)
            /\ RequestCount(s.events) = Len(outs)
            /\ got \/ doc = [hasVersion |-> FALSE, repository |-> NoRepo]
            /\ IF ~got
               THEN Fail(p, l, lg, MkError(MsgNoRepository, "repository"))
               ELSE IF repo = NoRepo
               THEN IF Api(p) = "pull"
                    THEN Finish(p, l, lg, Skipped("private"),
                                Update("skipped", "undefined", "private"))
                    ELSE Fail(p, l, lg, MkError(MsgNoRepository, "repository"))
               ELSE /\ pc' = [pc EXCEPT ![p] = "tagLookup"]
                    /\ loc' = [loc EXCEPT ![p] = l]
                    /\ log' = [log EXCEPT ![p] = lg]
    /\ UNCHANGED <<inp, hits, fs, batch, tagVars, fetchVars, storeVars, rp, view>>

\* fetchPackageMetadata: "await fetchWithRetry(url)" and the document; the
\* callers catch what it throws and go on without a repository
FetchMetadata(p) ==
    /\ pc[p] = "registry"
    /\ \E outs \in RegistryTransports, doc \in RegistryDocs :
        LET s == FetchWithRetry(outs)
            lg == Requested(log[p], RegistryUrl(Key(p).name), s)
            got == s.st = "returned" /\ ResponseOk(s.result) /\ doc.hasVersion
            repo == IF got THEN doc.repository ELSE NoRepo
            l == [loc[p] EXCEPT !.repo = repo]
        IN  /\ FetchDone(s)
            /\ RequestCount(s.events) = Len(outs)
            /\ got \/ doc = [hasVersion |-> FALSE, repository |-> NoRepo]
            /\ IF repo = NoRepo
               THEN IF Api(p) = "pull"
                    THEN Finish(p, l, lg, Skipped("private"),
                                Update("skipped", "undefined", "private"))
                    ELSE Fail(p, l, lg, MkError(MsgNoRepository, "repository"))
               ELSE /\ pc' = [pc EXCEPT ![p] = "tagLookup"]
                    /\ loc' = [loc EXCEPT ![p] = l]
                    /\ log' = [log EXCEPT ![p] = lg]
    /\ UNCHANGED <<inp, hits, fs, batch, tagVars, fetchVars, storeVars, rp, view>>

\* the tag lookup (skipped for the shared types monorepo), then
\* downloadRepositorySource up to its first await
TagLookup(p) ==
    /\ pc[p] = "tagLookup"
    /\ \E listing \in IF batch = NoBatch THEN AcqListings(Key(p))
                       ELSE SyncListings(Key(p)) :
        LET skip == ShouldSkipTagLookup(Key(p).name, loc[p].repo)
            found == IF skip THEN TagResult(Null, TRUE)
                     ELSE FindTag(listing, Key(p).version, Key(p).name)
            l == DownloadDispatch([loc[p] EXCEPT !.tag = found.tag,
                                                 !.usedFallback = found.usedFallback])
            lg1 == IF skip THEN log[p]
                   ELSE [Report(log[p], Api(p), Update("finding-tag", "undefined", "undefined"))
                            EXCEPT !.gits = Append(@, [cmd |-> "ls-remote", ref |-> Null,
                                                       listing |-> listing])]
        IN  /\ skip => listing = [ok |-> FALSE, tags |-> <<>>]
            /\ IF found.threw
               THEN Fail(p, loc[p], lg1, MkError(<<>>, "findTag"))
               ELSE /\ pc' = [pc EXCEPT ![p] = FirstDownloadStep(l)]
                    /\ loc' = [loc EXCEPT ![p] = l]
                    /\ log' = [log EXCEPT ![p] =
                                  Report(lg1, Api(p),
                                         Update("downloading", "undefined", "undefined"))]
    /\ UNCHANGED <<inp, hits, fs, batch, tagVars, fetchVars, storeVars, rp, view>>

\* downloadAndExtract threw `error` (its cleanup done): the catch of
\* downloadRepositorySource around the tag attempt, and the fallback loop
DownloadFailed(p, l0, lg, error) ==
    LET l == [l0 EXCEPT !.attempts = Append(@, [url |-> l0.url, error |-> error]),
                        !.err = NoError]
        fallbackUrls == GetDefaultBranchTarballUrls(l.repo)
    IN  IF l.stage = "tag"
        THEN IF ~IsNotFoundFailure(error)
             THEN Fail(p, l, lg, error)
             ELSE /\ pc' = [pc EXCEPT ![p] = "de_rm"]
                  /\ loc' = [loc EXCEPT ![p] = [l EXCEPT !.stage = "fallback", !.idx = 1,
                                                         !.url = fallbackUrls[1]]]
                  /\ log' = [log EXCEPT ![p] = lg]
        ELSE IF l.idx < Len(fallbackUrls)
        THEN /\ pc' = [pc EXCEPT ![p] = "de_rm"]
             /\ loc' = [loc EXCEPT ![p] = [l EXCEPT !.idx = l.idx + 1,
                                                    !.url = fallbackUrls[l.idx + 1],
                                                    !.lastError = error]]
             /\ log' = [log EXCEPT ![p] = lg]
        ELSE Fail(p, [l EXCEPT !.lastError = error], lg,
                  [message |-> error.message, attempted |-> fallbackUrls,
                   cause |-> "aggregate"])

\* downloadAndExtract: "await fsp.rm(outputDir)" in its try/catch, then mkdir
DeRemove(p) ==
    /\ pc[p] = "de_rm"
    /\ fs' = FsRemoveFinal(fs, Key(p))
    /\ pc' = [pc EXCEPT ![p] = "de_mkdtemp"]
    /\ log' = [log EXCEPT ![p] = Wrote(@, "rm", "final")]
    /\ UNCHANGED <<inp, loc, hits, batch, tagVars, fetchVars, storeVars, rp, view>>

\* "await fsp.mkdtemp": the temp directory exists and the fetch is issued
DeMakeTemp(p) ==
    /\ pc[p] = "de_mkdtemp"
    /\ fs' = FsMakeTemp(fs, p)
    /\ pc' = [pc EXCEPT ![p] = "de_fetch"]
    /\ log' = [log EXCEPT ![p] = Wrote(@, "mkdtemp", "temp")]
    /\ UNCHANGED <<inp, loc, hits, batch, tagVars, fetchVars, storeVars, rp, view>>

\* "await fetchWithRetry(url)" settles; the checks of the response
DeFetch(p) ==
    /\ pc[p] = "de_fetch"
    /\ \E outs \in IF batch = NoBatch THEN AcqTransports ELSE SyncTransports :
        LET s == FetchWithRetry(outs)
            error == IF s.st = "thrown" THEN MkError(s.result.message, "fetch")
                     ELSE IF ~ResponseOk(s.result)
                     THEN MkError(DownloadFailedMessage(s.result), "status")
                     ELSE IF ~s.result.body THEN MkError(MsgNoResponseBody, "body")
                     ELSE NoError
        IN  /\ FetchDone(s)
            /\ RequestCount(s.events) = Len(outs)
            /\ log' = [log EXCEPT ![p] = Requested(@, loc[p].url, s)]
            /\ loc' = [loc EXCEPT ![p].err = error]
            /\ pc' = [pc EXCEPT ![p] = IF error = NoError THEN "de_extract"
                                       ELSE "de_cleanup"]
    /\ UNCHANGED <<inp, hits, fs, batch, tagVars, fetchVars, storeVars, rp, view>>

\* the archive streams into the extractor: files appear in the temp directory
DeExtractWrite(p) ==
    /\ pc[p] = "de_extract"
    /\ fs' = FsExtractWrite(fs, p, Key(p))
    /\ pc' = [pc EXCEPT ![p] = "de_extracting"]
    /\ log' = [log EXCEPT ![p] = Wrote(@, "write", "temp")]
    /\ UNCHANGED <<inp, loc, hits, batch, tagVars, fetchVars, storeVars, rp, view>>

\* the promise around the extractor settles: 'finish', or an 'error' of the
\* extractor or of the stream
DeExtractEnd(p) ==
    /\ pc[p] = "de_extracting"
    /\ \E finished \in BOOLEAN :
        IF finished
        THEN /\ fs' = FsExtractFinish(fs, p)
             /\ pc' = [pc EXCEPT ![p] = "de_rename"]
             /\ log' = [log EXCEPT ![p] = Wrote(@, "write", "temp")]
             /\ loc' = loc
        ELSE /\ fs' = fs
             /\ pc' = [pc EXCEPT ![p] = "de_cleanup"]
             /\ log' = log
             /\ loc' = [loc EXCEPT ![p].err = MkError(MsgTarError, "extract")]
    /\ UNCHANGED <<inp, hits, batch, tagVars, fetchVars, storeVars, rp, view>>

\* "await fsp.rename(tempDir, outputDir)": downloadAndExtract returns, and so
\* does downloadRepositorySource; or the rename throws
DeRename(p) ==
    /\ pc[p] = "de_rename"
    /\ \E renamed \in BOOLEAN :
        /\ renamed => CanRename(fs, Key(p))
        /\ IF renamed
           THEN /\ fs' = FsRename(fs, p, Key(p))
                /\ pc' = [pc EXCEPT ![p] = "linkNew"]
                /\ log' = [log EXCEPT ![p] = Wrote(@, "rename", "final")]
                /\ loc' = [loc EXCEPT ![p].attempts =
                              Append(@, [url |-> loc[p].url, error |-> NoError])]
           ELSE /\ fs' = fs
                /\ pc' = [pc EXCEPT ![p] = "de_cleanup"]
                /\ log' = log
                /\ loc' = [loc EXCEPT ![p].err =
                              MkError(MsgRenameError,
                                      IF CanRename(fs, Key(p)) THEN "rename"
                                      ELSE "occupied")]
    /\ UNCHANGED <<inp, hits, batch, tagVars, fetchVars, storeVars, rp, view>>

\* the catch block: "await fsp.rm(tempDir)", then "throw error" into
\* downloadRepositorySource
DeCleanup(p) ==
    /\ pc[p] = "de_cleanup"
    /\ fs' = FsRemoveTemp(fs, p)
    /\ DownloadFailed(p, loc[p], Wrote(log[p], "rm", "temp"), loc[p].err)
    /\ UNCHANGED <<inp, hits, batch, tagVars, fetchVars, storeVars, rp, view>>

\* downloadSparseSubdirectory: ensureStoreDir, "await fsp.rm(outputDir)",
\* mkdir
SpRemove(p) ==
    /\ pc[p] = "sp_rm"
    /\ fs' = FsRemoveFinal(fs, Key(p))
    /\ pc' = [pc EXCEPT ![p] = "sp_mkdtemp"]
    /\ log' = [log EXCEPT ![p] = Wrote(@, "rm", "final")]
    /\ UNCHANGED <<inp, loc, hits, batch, tagVars, fetchVars, storeVars, rp, view>>

\* "await fsp.mkdtemp": the temp root exists and git clone is spawned
SpMakeTemp(p) ==
    /\ pc[p] = "sp_mkdtemp"
    /\ fs' = FsMakeTemp(fs, p)
    /\ pc' = [pc EXCEPT ![p] = "sp_git"]
    /\ log' = [log EXCEPT ![p] = Wrote(@, "mkdtemp", "temp")]
    /\ UNCHANGED <<inp, loc, hits, batch, tagVars, fetchVars, storeVars, rp, view>>

\* the git commands of the sparse clone, in the order they are run
GitCommands == <<"clone", "sparse-checkout init", "sparse-checkout set", "checkout">>

\* one "await runGitCommand(...)" settles: exit code 0, or the error thrown
SpGit(p) ==
    /\ pc[p] = "sp_git"
    /\ \E exitOk \in BOOLEAN :
        LET cmd == GitCommands[loc[p].idx]
            lg == [log[p] EXCEPT !.gits =
                      Append(@, [cmd |-> cmd,
                                 ref |-> IF cmd = "clone" THEN loc[p].tag ELSE Null])]
        IN  IF exitOk
            THEN /\ fs' = IF cmd \in {"clone", "checkout"} THEN FsClone(fs, p) ELSE fs
                 /\ log' = [log EXCEPT ![p] =
                               IF cmd \in {"clone", "checkout"}
                               THEN Wrote(lg, "write", "temp") ELSE lg]
                 /\ loc' = [loc EXCEPT ![p].idx = IF cmd = "checkout" THEN 0 ELSE @ + 1]
                 /\ pc' = [pc EXCEPT ![p] = IF cmd = "checkout" THEN "sp_readdir"
                                            ELSE "sp_git"]
            ELSE /\ fs' = fs
                 /\ log' = [log EXCEPT ![p] = lg]
                 /\ loc' = [loc EXCEPT ![p].err = MkError(MsgGitFailed, cmd)]
                 /\ pc' = [pc EXCEPT ![p] = "sp_finally"]
    /\ UNCHANGED <<inp, hits, batch, tagVars, fetchVars, storeVars, rp, view>>

\* "await fsp.readdir(sparseRoot)": entries, none, or no such directory
SpReaddir(p) ==
    /\ pc[p] = "sp_readdir"
    /\ \E listed \in {"entries", "empty", "enoent"} :
        /\ loc' = [loc EXCEPT ![p].err =
                      CASE listed = "entries" -> NoError
                        [] listed = "empty" -> MkError(MsgSparseEmpty, "readdir")
                        [] listed = "enoent" -> MkError(MsgEnoent, "readdir")]
        /\ pc' = [pc EXCEPT ![p] = IF listed = "entries" THEN "sp_strip"
                                   ELSE "sp_finally"]
    /\ UNCHANGED <<inp, log, hits, fs, batch, tagVars, fetchVars, storeVars, rp, view>>

\* "await fsp.rm(path.join(cloneDir, '.git'))"
SpStripGit(p) ==
    /\ pc[p] = "sp_strip"
    /\ fs' = FsStripGit(fs, p)
    /\ pc' = [pc EXCEPT ![p] = "sp_rename"]
    /\ log' = [log EXCEPT ![p] = Wrote(@, "rm", "temp")]
    /\ UNCHANGED <<inp, loc, hits, batch, tagVars, fetchVars, storeVars, rp, view>>

\* "await fsp.rename(cloneDir, outputDir)"
SpRename(p) ==
    /\ pc[p] = "sp_rename"
    /\ \E renamed \in BOOLEAN :
        /\ renamed => CanRename(fs, Key(p))
        /\ IF renamed
           THEN /\ fs' = FsRenameClone(fs, p, Key(p))
                /\ log' = [log EXCEPT ![p] = Wrote(@, "rename", "final")]
                /\ loc' = loc
           ELSE /\ fs' = fs
                /\ log' = log
                /\ loc' = [loc EXCEPT ![p].err = MkError(MsgRenameError, "rename")]
    /\ pc' = [pc EXCEPT ![p] = "sp_finally"]
    /\ UNCHANGED <<inp, hits, batch, tagVars, fetchVars, storeVars, rp, view>>

\* the finally block: "await fsp.rm(tempRoot)"; then the function returns,
\* or the error thrown in the try block goes on to the caller
SpFinally(p) ==
    /\ pc[p] = "sp_finally"
    /\ fs' = FsRemoveTemp(fs, p)
    /\ LET lg == Wrote(log[p], "rm", "temp")
       IN  IF loc[p].err = NoError
           THEN /\ pc' = [pc EXCEPT ![p] = "linkNew"]
                /\ log' = [log EXCEPT ![p] = lg]
                /\ loc' = loc
           ELSE Fail(p, loc[p], lg, loc[p].err)
    /\ UNCHANGED <<inp, hits, batch, tagVars, fetchVars, storeVars, rp, view>>

\* after the download: "await ensureProjectPackageLink" and the return
LinkNew(p) ==
    /\ pc[p] = "linkNew"
    /\ LET r == EnsureProjectPackageLink(fs, Key(p), inp[p].cwdHome)
       IN  /\ fs' = r.fs
           /\ IF r.threw
              THEN Fail(p, loc[p], log[p], MkError(MsgCacheMissing, "link"))
              ELSE Finish(p, loc[p], log[p], Complete("false"),
                          Update("complete", "false", "undefined"))
    /\ UNCHANGED <<inp, hits, batch, tagVars, fetchVars, storeVars, rp, view>>

\* the caller takes the outcome of the call
Return(p) ==
    /\ pc[p] = "done"
    /\ hits' = IF loc[p].res.fromCache = "true" THEN hits \cup {Key(p)} ELSE hits
    /\ pc' = [pc EXCEPT ![p] = "idle"]
    /\ inp' = [inp EXCEPT ![p] = NoInput]
    /\ loc' = [loc EXCEPT ![p] = LocInit]
    /\ log' = [log EXCEPT ![p] = LogInit]
    /\ UNCHANGED <<fs, batch, tagVars, fetchVars, storeVars, rp, view>>

\* syncProjectDependencies up to the map: "await getProjectDependencies"
SyncList ==
    /\ batch.state = "reading"
    /\ \E dependencies \in { GetProjectDependencies(batch.json) } :
          batch' = [batch EXCEPT
                      !.state = "listed",
                      !.deps = [i \in DOMAIN dependencies |->
                                  [key |-> InstalledKey(dependencies[i].name),
                                   spec |-> dependencies[i].spec]]]
    /\ UNCHANGED <<pc, inp, loc, log, hits, fs, tagVars, fetchVars, storeVars, rp, view>>

\* syncProjectDependencies after "await getProjectDependencies", and
\* executePullAction: map() calls pullPackageForProject for each package in
\* turn, and each call runs up to its first await
SyncStart ==
    /\ batch.state = "listed"
    /\ LET in == [p \in Procs |->
                    [api |-> "pull", key |-> batch.deps[p].key,
                     declaredSpec |-> batch.deps[p].spec, cwdHome |-> FALSE]]
       IN  /\ inp' = [p \in Procs |-> [api |-> "pull", key |-> batch.deps[p].key,
                                        cwdHome |-> FALSE]]
           /\ pc' = [p \in Procs |-> Begin(in[p]).pc]
           /\ loc' = [p \in Procs |-> Begin(in[p]).loc]
           /\ log' = [p \in Procs |-> Begin(in[p]).log]
    /\ batch' = [batch EXCEPT !.state = "pending"]
    /\ UNCHANGED <<hits, fs, tagVars, fetchVars, storeVars, rp, view>>

\* "await Promise.all(...)" settles: with the results in the order of the
\* dependencies once every call has returned, or with the rejection of a call
SyncSettle ==
    /\ batch.state = "pending"
    /\ IF \E p \in Procs : pc[p] = "done" /\ loc[p].res.status = "rejected"
       THEN batch' = [batch EXCEPT !.state = "rejected"]
       ELSE /\ \A p \in Procs : pc[p] = "done"
            /\ batch' = [batch EXCEPT !.state = "returned",
                                      !.results = [i \in 1..Len(batch.deps) |-> loc[i].res]]
    /\ UNCHANGED <<pc, inp, loc, log, hits, fs, tagVars, fetchVars, storeVars, rp, view>>

----------------------------------------------------------------------------
(* SpecPull: executePullAction over the store of the pull view             *)

\* String(callback): the text a function passed for a specifier reads as
MsgCallbackText == <<"(", "u", "p", "d", "a", "t", "e", ")", " ", "=", ">">>

\* props.packages: the names given to the command, a name possibly twice
PackageLists ==
    { << <<"a">> >>, << <<"a">>, <<"b">> >>, << <<"a">>, <<"a">> >>,
      << <<"b">>, <<"a">>, <<"b">> >> }

\* one row of the view
PackageRow(name, status, fromCache, skipReason) ==
    [name |-> name, status |-> status, fromCache |-> fromCache, skipReason |-> skipReason]

\* createPullStore(packageNames)
CreatePullStore(packageNames) ==
    [packages |-> [i \in 1..Len(packageNames) |->
                     PackageRow(packageNames[i], "pending", "undefined", "undefined")],
     results |-> <<>>, running |-> TRUE, done |-> FALSE]

\* { ...pkg, ...update, status: update.status ?? pkg.status }
NextRow(pkg, update) ==
    PackageRow(pkg.name,
               IF update.status = "undefined" THEN pkg.status ELSE update.status,
               IF update.fromCache = "undefined" THEN pkg.fromCache ELSE update.fromCache,
               IF update.skipReason = "undefined" THEN pkg.skipReason ELSE update.skipReason)

\* actions.updatePackage(name, update)
UpdatePackage(store, name, update) ==
    [store EXCEPT !.packages =
        [i \in DOMAIN @ |-> IF @[i].name # name THEN @[i] ELSE NextRow(@[i], update)]]

\* (a variant that keeps the earlier results of the same package)
RecordResultKeepsAll(store, result) ==
    [store EXCEPT !.results = Append(@, result)]

\* actions.recordResult(result)
RecordResult(store, result) ==
    [store EXCEPT !.results =
        Append(SelectSeq(@, LAMBDA item : item.packageName # result.packageName), result)]

\* actions.finishRun()
FinishRun(store) == [store EXCEPT !.running = FALSE, !.done = TRUE]

\* the parameters of pullPackageForProject(cwd, packageName, declaredSpec?,
\* onProgress?) as executePullAction's call binds them: it passes cwd, the
\* name and its callback, so that the callback is the third argument
ExecutePullArguments(packageName) ==
    [packageName |-> packageName, declaredSpec |-> MsgCallbackText,
     onProgress |-> "undefined"]

\* reportProgress(update): onProgress?.(update)
ReportProgress(store, args, update) ==
    IF args.onProgress = "undefined" THEN store
    ELSE UpdatePackage(store, args.packageName, update)

\* a pull: the updates it reports, one after each await, and what it returns
PullRun(updates, result) == [updates |-> updates, result |-> result]

\* the ways a call of pullPackageForProject can go: the workspace skip, a
\* cache hit, a private repository, a download, and an error before and
\* after the installed package is resolved
PullRuns(args) ==
    LET named(result) == [result EXCEPT !.packageName = args.packageName]
        fetching == Update("fetching", "undefined", "undefined")
        version == Update("undefined", "undefined", "undefined")
        findingTag == Update("finding-tag", "undefined", "undefined")
        downloading == Update("downloading", "undefined", "undefined")
        error == Update("error", "undefined", "undefined")
        private == Update("skipped", "undefined", "private")
    IN IF args.declaredSpec # Null /\ IsWorkspaceSpecifier(args.declaredSpec)
       THEN { PullRun(<<Update("skipped", "undefined", "workspace")>>,
                      named(Skipped("workspace"))) }
       ELSE { PullRun(<<fetching, version, Update("complete", "true", "undefined")>>,
                      named(Complete("true"))),
              PullRun(<<fetching, version, private>>, named(Skipped("private"))),
              PullRun(<<fetching, version, findingTag, downloading,
                        Update("complete", "false", "undefined")>>,
                      named(Complete("false"))),
              PullRun(<<fetching, error>>,
                      named([NoResult EXCEPT !.status = "error",
                                             !.error = [NoError EXCEPT !.message = MsgNotResolved]])),
              PullRun(<<fetching, version, findingTag, downloading, error>>,
                      named([NoResult EXCEPT !.status = "error",
                                             !.error = [NoError EXCEPT !.message = MsgFailedToDownload]])) }

ViewOff == [phase |-> "off", list |-> <<>>, store |-> CreatePullStore(<<>>), calls |-> <<>>]

\* the CLI has created the store for the packages it was given
ViewInit ==
    \E packages \in PackageLists :
        view = [phase |-> "created", list |-> packages,
                store |-> CreatePullStore(packages), calls |-> <<>>]

\* the calls props.packages.map has started, the first with its first update
\* reported, up to the i-th
RECURSIVE StartedStore(_, _, _)
StartedStore(store, calls, i) ==
    IF i = 0 THEN store
    ELSE ReportProgress(StartedStore(store, calls, i - 1), calls[i].args,
                        calls[i].run.updates[1])

\* executePullAction up to its await: props.packages.map starts every pull,
\* each running up to its own first await, its first update reported
ExecutePullAction ==
    /\ view.phase = "created"
    /\ \E runs \in [1..Len(view.list) ->
                      UNION { PullRuns(ExecutePullArguments(view.list[i])) :
                                i \in 1..Len(view.list) }] :
        /\ \A i \in 1..Len(view.list) :
               runs[i] \in PullRuns(ExecutePullArguments(view.list[i]))
        /\ \E calls \in { [i \in 1..Len(view.list) |->
                             [args |-> ExecutePullArguments(view.list[i]), run |-> runs[i],
                              at |-> 1, returned |-> Len(runs[i].updates) = 1,
                              recorded |-> FALSE]] } :
               view' = [view EXCEPT !.phase = "running", !.calls = calls,
                                    !.store = StartedStore(@, calls, Len(calls))]
    /\ UNCHANGED <<tagVars, fetchVars, acqVars, storeVars, rp>>

\* a pull resumes from an await and reports its next update; the last update
\* is the one it reports as it returns
PullStep(i) ==
    /\ view.phase = "running"
    /\ i \in DOMAIN view.calls
    /\ ~view.calls[i].returned
    /\ LET call == view.calls[i]
           at == call.at + 1
       IN /\ at <= Len(call.run.updates)
          /\ view' = [view EXCEPT
                !.calls[i].at = at,
                !.calls[i].returned = (at = Len(call.run.updates)),
                !.store = ReportProgress(@, call.args, call.run.updates[at])]
    /\ UNCHANGED <<tagVars, fetchVars, acqVars, storeVars, rp>>

\* the callback of props.packages.map resumes with the result of its pull
PullRecord(i) ==
    /\ view.phase = "running"
    /\ i \in DOMAIN view.calls
    /\ view.calls[i].returned /\ ~view.calls[i].recorded
    /\ view' = [view EXCEPT !.calls[i].recorded = TRUE,
                            !.store = RecordResult(@, view.calls[i].run.result)]
    /\ UNCHANGED <<tagVars, fetchVars, acqVars, storeVars, rp>>

\* Promise.all is fulfilled once every callback has returned; the finally
\* block runs then
PullFinish ==
    /\ view.phase = "running"
    /\ \A i \in DOMAIN view.calls : view.calls[i].recorded
    /\ view' = [view EXCEPT !.phase = "finished", !.store = FinishRun(@)]
    /\ UNCHANGED <<tagVars, fetchVars, acqVars, storeVars, rp>>

----------------------------------------------------------------------------
(* Spec: calls made one after another against the store                    *)

\* the processes that make calls in Spec, one call after another
Callers == {1}

AcqOff ==
    /\ pc = [p \in Procs |-> "off"]
    /\ inp = [p \in Procs |-> NoInput]
    /\ loc = [p \in Procs |-> LocInit]
    /\ log = [p \in Procs |-> LogInit]
    /\ hits = {}
    /\ fs = [entry |-> [k \in Keys |-> "absent"], link |-> [k \in Keys |-> "absent"],
             tmp |-> [p \in Procs |-> "none"]]
    /\ batch = NoBatch

SpecTagInit == FtInit /\ fw = FwOff /\ AcqOff /\ sd = SdOff /\ ln = LnOff /\ rp = RpOff /\ view = ViewOff

SpecTagNext == FindTagCall

SpecTag == SpecTagInit /\ [][SpecTagNext]_vars

SpecFetchInit == FwInit /\ ft = FtOff /\ AcqOff /\ sd = SdOff /\ ln = LnOff /\ rp = RpOff /\ view = ViewOff

SpecFetchNext == FwAttempt \/ FwDelay

\* a pending fetch settles and a pending timer fires
SpecFetch == SpecFetchInit /\ [][SpecFetchNext]_vars /\ WF_vars(SpecFetchNext)

SpecLocatorInit ==
    LocatorInit /\ ft = FtOff /\ fw = FwOff /\ AcqOff /\ sd = SdOff /\ ln = LnOff /\ view = ViewOff

SpecLocatorNext == LocatorCall

SpecLocator == SpecLocatorInit /\ [][SpecLocatorNext]_vars

SpecPullInit ==
    ViewInit /\ ft = FtOff /\ fw = FwOff /\ AcqOff /\ sd = SdOff /\ ln = LnOff /\ rp = RpOff

\* the positions in props.packages
Positions == UNION { DOMAIN packages : packages \in PackageLists }

SpecPullNext ==
    \/ ExecutePullAction
    \/ \E i \in Positions : PullStep(i)
    \/ \E i \in Positions : PullRecord(i)
    \/ PullFinish

SpecPull == SpecPullInit /\ [][SpecPullNext]_vars

\* the store holds any set of whole entries; no project link exists yet
Init ==
    /\ pc = [p \in Procs |-> IF p \in Callers THEN "idle" ELSE "off"]
    /\ inp = [p \in Procs |-> NoInput]
    /\ loc = [p \in Procs |-> LocInit]
    /\ log = [p \in Procs |-> LogInit]
    /\ hits = {}
    /\ \E entry \in [Keys -> {"absent", "complete"}] :
          /\ \A k \in Keys : (\A in \in CallInputs : in.key # k) => entry[k] = "absent"
          /\ fs = [entry |-> entry, link |-> [k \in Keys |-> "absent"],
                   tmp |-> [p \in Procs |-> "none"]]
    /\ batch = NoBatch
    /\ ft = FtOff
    /\ fw = FwOff
    /\ sd = SdOff
    /\ ln = LnOff /\ rp = RpOff /\ view = ViewOff

Next ==
    \E p \in Procs :
        \/ StartCall(p)
        \/ ResolveInstalled(p)
        \/ StatEntry(p)
        \/ LinkHit(p)
        \/ FetchMetadata(p)
        \/ TagLookup(p)
        \/ DeRemove(p)
        \/ DeMakeTemp(p)
        \/ DeFetch(p)
        \/ DeExtractWrite(p)
        \/ DeExtractEnd(p)
        \/ DeRename(p)
        \/ DeCleanup(p)
        \/ SpRemove(p)
        \/ SpMakeTemp(p)
        \/ SpGit(p)
        \/ SpReaddir(p)
        \/ SpStripGit(p)
        \/ SpRename(p)
        \/ SpFinally(p)
        \/ LinkNew(p)
        \/ Return(p)

Spec == Init /\ [][Next]_vars

----------------------------------------------------------------------------
(* SpecSync: one run of syncProjectDependencies, or of executePullAction,   *)
(* over two packages, whose calls run concurrently against an empty store  *)

SyncInit ==
    /\ pc = [p \in Procs |-> "idle"]
    /\ inp = [p \in Procs |-> NoInput]
    /\ loc = [p \in Procs |-> LocInit]
    /\ log = [p \in Procs |-> LogInit]
    /\ hits = {}
    /\ fs = [entry |-> [k \in Keys |-> "absent"], link |-> [k \in Keys |-> "absent"],
             tmp |-> [p \in Procs |-> "none"]]
    /\ \/ \E packageJson \in PackageJsons :
              batch = [json |-> packageJson, deps |-> <<>>, state |-> "reading",
                       results |-> <<>>]
       \/ \E deps \in SyncDependencies :
              batch = [json |-> NoPackageJson, deps |-> deps, state |-> "listed",
                       results |-> <<>>]
    /\ ft = FtOff
    /\ fw = FwOff
    /\ sd = SdOff
    /\ ln = LnOff /\ rp = RpOff /\ view = ViewOff

SyncNext ==
    \/ SyncList
    \/ SyncStart
    \/ SyncSettle
    \/ \E p \in Procs :
        \/ ResolveInstalled(p)
        \/ StatEntry(p)
        \/ LinkHit(p)
        \/ TagLookup(p)
        \/ DeRemove(p)
        \/ DeMakeTemp(p)
        \/ DeFetch(p)
        \/ DeExtractWrite(p)
        \/ DeExtractEnd(p)
        \/ DeRename(p)
        \/ DeCleanup(p)
        \/ LinkNew(p)

SpecSync == SyncInit /\ [][SyncNext]_vars

----------------------------------------------------------------------------
(* SpecStore: the store directory under acquisitions and prunes, and its   *)
(* enumeration, on a platform with either path separator                   *)

StoreInit ==
    /\ \E sep \in {"/", "\\"} : sd = [SdOff EXCEPT !.sep = sep]
    /\ ln = LnOff /\ rp = RpOff /\ view = ViewOff
    /\ ft = FtOff
    /\ fw = FwOff
    /\ AcqOff

StoreNext == StoreAcquire \/ StoreAcquireEnd \/ StorePrune \/ StoreList

SpecStore == StoreInit /\ [][StoreNext]_vars


----------------------------------------------------------------------------
(* Claims about the acquisition (Spec)                                     *)

Last(q) == q[Len(q)]

Range(q) == { q[i] : i \in 1..Len(q) }

\* the writes of the current call of p from the first of its latest
\* acquisition on (an acquisition starts by removing the final path)
WritesAfterRename(p) ==
    LET w == log[p].writes
        at == { i \in 1..Len(w) : w[i].op = "rename" }
    IN  { w[j] : j \in { j \in 1..Len(w) : \E i \in at : i < j } }

\* C1 (amended): the final cache path never holds a partially written tree;
\* tree content is written only under the acquisition's .tmp- directory; the
\* rename is the last write to the final path, and the only write to the store
\* that may follow it is the removal of the acquisition's own temp directory.
C1_FinalPathNeverPartial ==
    /\ \A k \in Keys : fs.entry[k] # "partial"
    /\ \A p \in Procs :
        /\ \A i \in 1..Len(log[p].writes) :
              log[p].writes[i].op = "write" => log[p].writes[i].target = "temp"
        /\ \A w \in WritesAfterRename(p) : w.op = "rm" /\ w.target = "temp"
        /\ (pc[p] \in {"de_extract", "de_extracting", "de_rename", "sp_git",
                        "sp_readdir", "sp_strip", "sp_rename"})
              => fs.entry[Key(p)] = "absent"

\* C1 witness: a sparse clone has renamed its tree into the final path and
\* removed its temp root
C1_Witness ==
    \E p \in Procs :
        /\ pc[p] = "linkNew"
        /\ loc[p].stage = "sparse"
        /\ fs.entry[Key(p)] = "complete"
        /\ fs.tmp[p] = "none"
        /\ Last(log[p].writes) = [op |-> "rm", target |-> "temp"]

\* C1 as stated: the rename into the final path is the acquisition's last
\* write to the store
C1_RenameIsLastWrite ==
    \A p \in Procs : WritesAfterRename(p) = {}

\* C2: when downloadAndExtract fails (its catch block has run and it throws),
\* nothing is at the final cache path of the key and the caller receives the
\* error that was raised.
C2_FailedDownloadLeavesNoEntry ==
    [][\A p \in Procs :
          pc[p] = "de_cleanup" =>
              /\ loc[p].err # NoError
              /\ fs'.entry[Key(p)] = "absent"
              /\ loc'[p].attempts # <<>>
              /\ Last(loc'[p].attempts) = [url |-> loc[p].url, error |-> loc[p].err]
              /\ fs'.tmp[p] = "none"]_vars

\* C2 witness: a download that failed at the final rename has returned
C2_Witness ==
    \E p \in Procs :
        /\ loc[p].attempts # <<>>
        /\ Last(loc[p].attempts).error.cause = "rename"
        /\ pc[p] \in {"de_rm", "done"}
        /\ fs.entry[Key(p)] = "absent"

\* C3: a call that finds the entry directory makes no HTTP request, spawns no
\* git process and returns fromCache = true; and once a call for a key was
\* served from the cache, no later call for the key requests or spawns
\* anything.
C3_CacheHitNeverDownloads ==
    \A p \in Procs :
        /\ (pc[p] = "done" /\ loc[p].existed) =>
              /\ loc[p].res.fromCache = "true"
              /\ log[p].reqs = <<>>
              /\ log[p].gits = <<>>
        /\ (pc[p] # "idle" /\ Key(p) \in hits) =>
              /\ log[p].reqs = <<>>
              /\ log[p].gits = <<>>

\* `Failed to download: 404 ...`, raised for a response
NotFoundError(error) ==
    /\ error.cause = "status"
    /\ error.message = MsgFailedToDownload \o <<"4", "0", "4", " ">>

DefaultBranchUrls(repo) == {BranchUrl(repo, Main), BranchUrl(repo, Master)}

\* the call of p went to the tag archive first
TagAttempted(p) ==
    /\ loc[p].attempts # <<>>
    /\ loc[p].repo.directory = Null
    /\ loc[p].tag # Null
    /\ loc[p].attempts[1].url = GetTagTarballUrl(loc[p].repo, loc[p].tag)

\* C4: with a resolved tag and no subdirectory, a tag archive download that
\* failed with HTTP 404 is followed by the default-branch URLs; one that
\* failed in any other way ends the call with that error, and no
\* default-branch URL is requested.
C4_TagFallbackOnlyOn404 ==
    \A p \in Procs :
        (TagAttempted(p) /\ loc[p].attempts[1].error # NoError) =>
            IF NotFoundError(loc[p].attempts[1].error)
            THEN /\ loc[p].stage = "fallback"
                 /\ pc[p] = "done" => Len(loc[p].attempts) >= 2
                 /\ Len(loc[p].attempts) >= 2 =>
                       loc[p].attempts[2].url \in DefaultBranchUrls(loc[p].repo)
            ELSE /\ pc[p] = "done"
                 /\ loc[p].res.status \in {"error", "rejected"}
                 /\ loc[p].res.error = loc[p].attempts[1].error
                 /\ Len(loc[p].attempts) = 1
                 /\ Range(log[p].reqs) \cap DefaultBranchUrls(loc[p].repo) = {}

\* C4 witness: the tag archive gave 404 and a default-branch download was made
C4_Witness ==
    \E p \in Procs :
        /\ TagAttempted(p)
        /\ NotFoundError(loc[p].attempts[1].error)
        /\ Len(loc[p].attempts) >= 2
        /\ BranchUrl(loc[p].repo, Main) \in Range(log[p].reqs)

\* the downloads of the call of p that went to default-branch archives
BranchAttempts(p) ==
    IF TagAttempted(p) THEN Tail(loc[p].attempts) ELSE loc[p].attempts

\* C5: without a subdirectory, the default-branch archive of main is tried
\* before that of master; a download that succeeds is the last one of the
\* call; master is requested only after the download of main has failed.
C5_MainBeforeMaster ==
    \A p \in Procs :
        (loc[p].repo # NoRepo /\ loc[p].repo.directory = Null) =>
            LET d == BranchAttempts(p)
                mainUrl == BranchUrl(loc[p].repo, Main)
                masterUrl == BranchUrl(loc[p].repo, Master)
            IN  /\ Len(d) <= 2
                /\ Len(d) >= 1 => d[1].url = mainUrl
                /\ Len(d) = 2 => d[2].url = masterUrl /\ d[1].error # NoError
                /\ \A i \in 1..Len(loc[p].attempts) :
                      loc[p].attempts[i].error = NoError =>
                          /\ i = Len(loc[p].attempts)
                          /\ pc[p] \in {"linkNew", "done"}
                /\ \A i \in 1..Len(log[p].reqs) :
                      log[p].reqs[i] = masterUrl =>
                          /\ \E j \in 1..(i - 1) : log[p].reqs[j] = mainUrl
                          /\ Len(d) >= 1
                          /\ d[1].error # NoError

\* C5 witness: main failed, then master was downloaded
C5_Witness ==
    \E p \in Procs :
        /\ loc[p].repo.directory = Null
        /\ Len(BranchAttempts(p)) = 2
        /\ BranchAttempts(p)[1].url = BranchUrl(loc[p].repo, Main)
        /\ BranchAttempts(p)[2] = [url |-> BranchUrl(loc[p].repo, Master), error |-> NoError]

\* C6: the error raised when every download of a call has failed lists every
\* URL the call attempted, the tag archive URL included.
C6_AggregateListsEveryUrl ==
    \A p \in Procs :
        (pc[p] = "done" /\ loc[p].res.error.cause = "aggregate") =>
            \A i \in 1..Len(loc[p].attempts) :
                loc[p].attempts[i].url \in Range(loc[p].res.error.attempted)

HasScopePrefix(packageName) ==
    StartsWith(packageName, At) /\ ArrayIncludes(packageName, "/")

\* the tag listing of the call of p, once it has settled
Listed(p) ==
    /\ pc[p] \notin {"idle", "off", "start", "resolve", "stat", "registry", "tagLookup"}
    /\ log[p].gits # <<>>
    /\ log[p].gits[1].cmd = "ls-remote"

\* no tag of the listing is one of the exact forms, holds the version as text
\* or matches the version read as a pattern
NoRuleMatches(tags, version, packageName) ==
    \A i \in 1..Len(tags) :
        /\ tags[i] \notin { <<"v">> \o version, version, packageName \o At \o version }
        /\ HasScopePrefix(packageName) =>
              tags[i] # Split(packageName, "/")[2] \o At \o version
        /\ ~Includes(tags[i], version)
        /\ VersionPattern(version) # RegExpInvalid => ~RegExpTest(VersionPattern(version), tags[i])

\* the call of p downloads from the default branch: no tag archive, and a
\* clone that names no branch
DefaultBranchPath(p) ==
    /\ loc[p].stage \in {"fallback", "sparse"}
    /\ loc[p].stage = "fallback" => loc[p].url \in DefaultBranchUrls(loc[p].repo)
    /\ \A i \in 1..Len(loc[p].attempts) :
          loc[p].attempts[i].url \in DefaultBranchUrls(loc[p].repo)
    /\ \A i \in 1..Len(log[p].gits) :
          log[p].gits[i].cmd = "clone" => log[p].gits[i].ref = Null

\* C11: findTag never raises; when the listing fails, is empty or matches no
\* rule, it gives tag = null with usedFallback = true and the call goes on to
\* download from the default branch; usedFallback is true exactly when the
\* tag is null.
C11_FindTagDegrades ==
    \A p \in Procs :
        Listed(p) =>
            LET listing == log[p].gits[1].listing
            IN  /\ loc[p].res.error.cause # "findTag"
                /\ loc[p].usedFallback <=> loc[p].tag = Null
                /\ loc[p].stage # "none"
                /\ (\/ ~listing.ok
                    \/ listing.tags = <<>>
                    \/ NoRuleMatches(listing.tags, Key(p).version, Key(p).name)) =>
                      /\ loc[p].tag = Null
                      /\ loc[p].usedFallback
                      /\ DefaultBranchPath(p)

\* C11 witness: the listing failed and the archive of main was downloaded
C11_Witness ==
    \E p \in Procs :
        /\ Listed(p)
        /\ ~log[p].gits[1].listing.ok
        /\ pc[p] = "linkNew"
        /\ loc[p].attempts = << [url |-> BranchUrl(loc[p].repo, Main), error |-> NoError] >>

\* the steps at which a call holds a temp directory
HoldsTemp ==
    {"de_fetch", "de_extract", "de_extracting", "de_rename", "de_cleanup",
     "sp_git", "sp_readdir", "sp_strip", "sp_rename", "sp_finally"}

\* the writes of the call of p that are `op` on `target`
WritesOf(p, op, target) ==
    { i \in 1..Len(log[p].writes) :
        log[p].writes[i] = [op |-> op, target |-> target] }

ArchiveUrls(p) ==
    DefaultBranchUrls(loc[p].repo)
      \cup (IF loc[p].tag = Null THEN {} ELSE {GetTagTarballUrl(loc[p].repo, loc[p].tag)})

\* the call of p has reached its download with a repository that carries a
\* subdirectory
SparseCall(p) ==
    /\ loc[p].repo # NoRepo
    /\ loc[p].repo.directory # Null
    /\ pc[p] = "done" \/ pc[p] \in HoldsTemp \/ pc[p] \in {"sp_rm", "sp_mkdtemp", "linkNew"}
    /\ pc[p] = "done" => loc[p].res.status \in {"complete", "error", "rejected"}
                         /\ loc[p].res.fromCache # "true"

\* the git commands the call of p has run for its download (the listing of
\* the tags by git ls-remote is not one of them)
SparseGits(p) == SelectSeq(log[p].gits, LAMBDA g : g.cmd # "ls-remote")

\* C32: with a subdirectory in the resolved repository the acquisition
\* requests no archive URL; it runs git clone, sparse-checkout init,
\* sparse-checkout set and checkout in that order, the clone at the
\* resolved tag when there is one; the entry is renamed into the final
\* path only after all four commands and no failed step (a command, the
\* listing of the subdirectory, an empty subdirectory); and the call that
\* fails ends with the error of the step that failed, which was its last.
C32_SubdirectoryUsesSparseClone ==
    \A p \in Procs :
        SparseCall(p) =>
            /\ Range(log[p].reqs) \cap ArchiveUrls(p) = {}
            /\ loc[p].attempts = <<>>
            /\ Len(SparseGits(p)) <= Len(GitCommands)
            /\ \A i \in 1..Len(SparseGits(p)) :
                  /\ SparseGits(p)[i].cmd = GitCommands[i]
                  /\ SparseGits(p)[i].ref = IF i = 1 THEN loc[p].tag ELSE Null
            /\ WritesOf(p, "rename", "final") # {} =>
                  /\ Len(SparseGits(p)) = Len(GitCommands)
                  /\ loc[p].err = NoError
            /\ loc[p].err # NoError =>
                  /\ pc[p] \in {"sp_finally", "done"}
                  /\ WritesOf(p, "rename", "final") = {}
                  /\ fs.entry[Key(p)] = "absent"
                  /\ loc[p].err.message = MsgGitFailed =>
                        loc[p].err.cause = Last(SparseGits(p)).cmd
                  /\ loc[p].err.cause = "readdir" => Len(SparseGits(p)) = Len(GitCommands)
            /\ (pc[p] = "done" /\ loc[p].err # NoError) =>
                  /\ loc[p].res.status \in {"error", "rejected"}
                  /\ loc[p].res.error = loc[p].err
            /\ (pc[p] = "done" /\ loc[p].err = NoError) =>
                  /\ loc[p].res.status = "complete"
                  /\ WritesOf(p, "rename", "final") # {}

\* a call cloned at its tag, ran the four commands and installed the entry
C32_Witness ==
    \E p \in Procs :
        /\ SparseCall(p)
        /\ pc[p] = "done"
        /\ loc[p].res.status = "complete"
        /\ loc[p].tag # Null
        /\ Len(SparseGits(p)) = 4
        /\ SparseGits(p)[1] = [cmd |-> "clone", ref |-> loc[p].tag]
        /\ WritesOf(p, "rename", "final") # {}
        /\ Range(log[p].reqs) \cap ArchiveUrls(p) = {}

TerminalStatuses == {"complete", "skipped", "error"}

\* the places of the terminal updates among the progress updates of p
TerminalUpdates(p) ==
    { i \in 1..Len(log[p].prog) : log[p].prog[i].status \in TerminalStatuses }

\* C36: a call of pullPackageForProject has emitted no terminal status
\* (complete, skipped, error) while it runs; when it returns it has emitted
\* exactly one, as its last update, and the status and the fromCache flag
\* of its result are those of that update.
C36_OneTerminalUpdateLast ==
    \A p \in Procs :
        Api(p) = "pull" =>
            IF pc[p] = "done"
            THEN /\ TerminalUpdates(p) = {Len(log[p].prog)}
                 /\ loc[p].res.status = Last(log[p].prog).status
                 /\ loc[p].res.fromCache = Last(log[p].prog).fromCache
                 /\ loc[p].res.skipReason = Last(log[p].prog).skipReason
            ELSE TerminalUpdates(p) = {}

\* a call that downloaded has returned complete after four updates with a
\* status, and one that failed has returned error
C36_Witness ==
    \E p \in Procs :
        /\ Api(p) = "pull" /\ pc[p] = "done"
        /\ loc[p].res.status = "complete" /\ loc[p].res.fromCache = "false"
        /\ Last(log[p].prog) = Update("complete", "false", "undefined")
        /\ \E i, j, k \in 1..Len(log[p].prog) :
              /\ i < j /\ j < k /\ k < Len(log[p].prog)
              /\ log[p].prog[i].status = "fetching"
              /\ log[p].prog[j].status = "finding-tag"
              /\ log[p].prog[k].status = "downloading"

\* the call of p has asked the registry for the package
RegistryAsked(p) ==
    \E i \in 1..Len(log[p].reqs) : log[p].reqs[i] = RegistryUrl(Key(p).name)

\* C30: in pullPackageForProject, when neither the installed package nor
\* the registry gives a repository, the registry lookup failing included,
\* the call ends as skipped with reason 'private', never as error, and no
\* tag listing and no download is attempted: the requests made are those
\* to the registry, no git process is spawned, nothing is written.
C30_NoRepositoryIsSkippedPrivate ==
    \A p \in Procs :
        (Api(p) = "pull" /\ RegistryAsked(p) /\ loc[p].repo = NoRepo) =>
            /\ pc[p] = "done"
            /\ loc[p].res.status = "skipped"
            /\ loc[p].res.skipReason = "private"
            /\ Last(log[p].prog) = Update("skipped", "undefined", "private")
            /\ \A i \in 1..Len(log[p].prog) :
                  log[p].prog[i].status \notin {"error", "finding-tag", "downloading"}
            /\ \A i \in 1..Len(log[p].reqs) : log[p].reqs[i] = RegistryUrl(Key(p).name)
            /\ log[p].gits = <<>>
            /\ log[p].writes = <<>>

\* a call that was skipped as private after a registry lookup that failed
\* three times
C30_Witness ==
    \E p \in Procs :
        /\ pc[p] = "done" /\ Api(p) = "pull"
        /\ loc[p].repo = NoRepo
        /\ Len(log[p].reqs) = MaxAttempts
        /\ loc[p].res.skipReason = "private"

----------------------------------------------------------------------------
(* Claims about a sync run (SpecSync)                                      *)

\* an '@types/' package whose repository is github
\* DefinitelyTyped/DefinitelyTyped, in any spelling of the letters' case
TypesMonorepoPackage(packageName, repo) ==
    /\ Len(packageName) >= 7
    /\ SubSeq(packageName, 1, 7) = <<"@", "t", "y", "p", "e", "s", "/">>
    /\ repo.host = "github"
    /\ ToLowerCase(repo.owner) = <<"d","e","f","i","n","i","t","e","l","y","t","y","p","e","d">>
    /\ ToLowerCase(repo.repo) = <<"d","e","f","i","n","i","t","e","l","y","t","y","p","e","d">>

\* the download of the call of p has begun
DownloadBegun(p) == loc[p].stage # "none"

\* the positions of `status` among the progress updates of the call of p
Reported(p, status) ==
    { i \in 1..Len(log[p].prog) : log[p].prog[i].status = status }

\* C12: for an '@types/' package resolved to github
\* DefinitelyTyped/DefinitelyTyped (case-insensitively) no tag listing is run,
\* no 'finding-tag' is reported and the download names no tag; for every
\* other package the listing has run, and 'finding-tag' has been reported,
\* before the download begins.
C12_TypesMonorepoSkipsTagLookup ==
    \A p \in Procs :
        LET lookups == { i \in 1..Len(log[p].gits) : log[p].gits[i].cmd = "ls-remote" }
        IN  /\ (log[p].reqs # <<>> \/ log[p].writes # <<>>) => DownloadBegun(p)
            /\ DownloadBegun(p) =>
                  IF TypesMonorepoPackage(Key(p).name, loc[p].repo)
                  THEN /\ lookups = {}
                       /\ Reported(p, "finding-tag") = {}
                       /\ loc[p].tag = Null
                       /\ DefaultBranchPath(p)
                       /\ \A i \in 1..Len(log[p].reqs) :
                             log[p].reqs[i] \in DefaultBranchUrls(loc[p].repo)
                  ELSE /\ lookups = {1}
                       /\ \E i \in Reported(p, "finding-tag") :
                             \A j \in Reported(p, "downloading") : i < j

\* both cases in one run: the '@types/' package of the monorepo is installed
\* from the main archive with no listing, the other package of the same
\* repository after its listing
C12_Witness ==
    \E p, q \in Procs :
        /\ pc[p] = "done" /\ pc[q] = "done"
        /\ loc[p].repo = loc[q].repo
        /\ TypesMonorepoPackage(Key(p).name, loc[p].repo)
        /\ ~TypesMonorepoPackage(Key(q).name, loc[q].repo)
        /\ loc[p].res.status = "complete" /\ loc[q].res.status = "complete"
        /\ log[p].gits = <<>>
        /\ log[p].reqs = << BranchUrl(loc[p].repo, Main) >>
        /\ log[q].gits # <<>> /\ log[q].reqs # <<>>

\* C13: pullPackageForProject never rejects: a failure inside a package's
\* acquisition ends that package's call with its own result of status error;
\* syncProjectDependencies never rejects and returns one result per
\* dependency, in the order of the dependencies, each the result of that
\* dependency's call whatever the other call came to.
C13_SyncReturnsOneResultPerDependency ==
    /\ batch.state # "rejected"
    /\ \A p \in Procs :
          pc[p] = "done" =>
              /\ loc[p].res.status \in {"complete", "skipped", "error"}
              /\ loc[p].res.packageName = batch.deps[p].key.name
              /\ loc[p].res.status = "error" <=> loc[p].res.error # NoError
              /\ (loc[p].attempts # <<>> /\ Last(loc[p].attempts).error # NoError) =>
                    loc[p].res.status = "error"
    /\ batch.state = "returned" =>
          /\ Len(batch.results) = Len(batch.deps)
          /\ \A i \in 1..Len(batch.deps) :
                /\ batch.results[i].packageName = batch.deps[i].key.name
                /\ batch.results[i] = loc[i].res

\* the first dependency failed and the second was installed
C13_Witness ==
    /\ batch.state = "returned"
    /\ batch.deps[1].key # batch.deps[2].key
    /\ batch.results[1].status = "error"
    /\ batch.results[1].error.cause = "aggregate"
    /\ batch.results[2].status = "complete"
    /\ fs.entry[batch.deps[1].key] = "absent"
    /\ fs.entry[batch.deps[2].key] = "complete"

\* the dependencies of the run are listed and are packages of distinct cache
\* keys
DistinctKeys == Len(batch.deps) > 1 /\ batch.deps[1].key # batch.deps[2].key

\* the step taken is not one of the call of p
NotStepOf(p) == pc'[p] = pc[p] /\ loc'[p] = loc[p] /\ log'[p] = log[p]

\* the call of p has ended as a call running alone against the empty store
\* ends: installed by its own download, or failed with the error of its own
\* last download and nothing left at its final path
EndedAsAlone(p) ==
    LET k == batch.deps[p].key
        res == loc[p].res
    IN  /\ ~loc[p].existed
        /\ loc[p].attempts # <<>>
        /\ \A i \in 1..Len(loc[p].attempts) : loc[p].attempts[i].error.cause # "occupied"
        /\ \/ /\ res.status = "complete" /\ res.fromCache = "false"
              /\ Last(loc[p].attempts).error = NoError
              /\ fs.entry[k] = "complete" /\ fs.link[k] = "ok"
           \/ /\ res.status = "error"
              /\ Last(loc[p].attempts).error # NoError
              /\ res.error.message = Last(loc[p].attempts).error.message
              /\ fs.entry[k] = "absent" /\ fs.link[k] = "absent"

\* C14: acquisitions for distinct cache keys that run concurrently do not
\* interfere: no step of one call changes the temp directory, the final path
\* or the project link of the other, and each call ends as it ends alone.
C14_DistinctKeysDoNotInterfere ==
    /\ [](DistinctKeys =>
            \A p \in Procs : (pc[p] = "done" /\ DownloadBegun(p)) => EndedAsAlone(p))
    /\ [][DistinctKeys =>
            \A p \in Procs :
                NotStepOf(p) =>
                    /\ fs'.tmp[p] = fs.tmp[p]
                    /\ fs'.entry[batch.deps[p].key] = fs.entry[batch.deps[p].key]
                    /\ fs'.link[batch.deps[p].key] = fs.link[batch.deps[p].key]]_vars

\* one call has installed its entry while the other, for another key, holds
\* its extracted archive in its own temp directory
C14_Witness ==
    \E p, q \in Procs :
        /\ DistinctKeys /\ p # q
        /\ batch.state = "pending"
        /\ pc[p] = "done" /\ loc[p].res.status = "complete"
        /\ fs.entry[Key(p)] = "complete"
        /\ pc[q] = "de_rename" /\ fs.tmp[q] = "full"
        /\ fs.entry[Key(q)] = "absent"

\* the call of p failed through what the other call did: its rename found
\* the final path taken, or the entry it had installed was gone when it
\* came to link it
FailedBecauseOfOther(p) ==
    /\ loc[p].res.status = "error"
    /\ \/ loc[p].res.error.cause = "link"
       \/ \E i \in 1..Len(loc[p].attempts) : loc[p].attempts[i].error.cause = "occupied"

\* C15: two acquisitions for the same cache key that run concurrently are
\* safe to race: neither fails because of the other, and when both have
\* finished and one of them returned complete, a complete entry stands at
\* the key's final path.
C15_SameKeyRaceIsSafe ==
    ~DistinctKeys =>
        /\ \A p \in Procs : pc[p] = "done" => ~FailedBecauseOfOther(p)
        /\ ((\A p \in Procs : pc[p] = "done") /\
             (\E p \in Procs : loc[p].res.status = "complete")) =>
                fs.entry[batch.deps[1].key] = "complete"

\* the call of p has returned complete
ReturnedComplete(p) == pc[p] = "done" /\ loc[p].res.status = "complete"

\* C33: once an acquisition for a key has returned complete, the entry of
\* the key stands in the cache, whatever another acquisition for the key
\* that runs beside it does (SpecSync: no prune is made, every cwd is
\* outside the home directory)
C33_CompleteEntryStays ==
    \A p \in Procs : ReturnedComplete(p) => fs.entry[Key(p)] = "complete"

\* C33 for acquisitions of distinct keys that run together
C33_HoldsForDistinctKeys ==
    DistinctKeys => C33_CompleteEntryStays

\* C33 for calls made one after another from a cwd outside the home
\* directory (Spec): no step takes a complete entry away
C33_HoldsForSerialCalls ==
    [][ \A k \in Keys :
          (fs.entry[k] = "complete" /\ \A p \in Callers : ~inp[p].cwdHome) =>
              fs'.entry[k] = "complete" ]_vars

\* both calls of a run over two packages have returned complete
C33_Witness ==
    /\ DistinctKeys
    /\ \A p \in Procs : ReturnedComplete(p) /\ loc[p].res.fromCache = "false"
    /\ \A p \in Procs : fs.entry[Key(p)] = "complete"

\* the place of a status in fetching -> finding-tag -> downloading ->
\* (complete | skipped | error); 0 for an update that carries no status
StatusRank(status) ==
    CASE status = "fetching" -> 1
      [] status = "finding-tag" -> 2
      [] status = "downloading" -> 3
      [] status \in {"complete", "skipped", "error"} -> 4
      [] OTHER -> 0

\* C16: the statuses given to the progress callback of one call of
\* pullPackageForProject only advance along fetching -> finding-tag ->
\* downloading -> (complete | skipped | error), the last of them being the
\* status the call returns; and a step of another call adds nothing to the
\* updates of this call.
C16_ProgressOnlyAdvances ==
    /\ [](\A p \in Procs :
            LET prog == log[p].prog
            IN  /\ \A i, j \in 1..Len(prog) :
                      (i < j /\ StatusRank(prog[i].status) > 0
                             /\ StatusRank(prog[j].status) > 0) =>
                          StatusRank(prog[i].status) < StatusRank(prog[j].status)
                /\ (pc[p] = "done" /\ Api(p) = "pull") =>
                      /\ prog # <<>>
                      /\ Last(prog).status = loc[p].res.status
                      /\ StatusRank(Last(prog).status) = 4)
    /\ [][\A p \in Procs : pc'[p] = pc[p] => log'[p].prog = log[p].prog]_vars

\* one call has gone through every status and ended complete while the
\* other, started with it, ended with an error after its download
C16_Witness ==
    \E p, q \in Procs :
        /\ pc[p] = "done" /\ pc[q] = "done"
        /\ log[p].prog = << Update("fetching", "undefined", "undefined"),
                            Update("undefined", "undefined", "undefined"),
                            Update("finding-tag", "undefined", "undefined"),
                            Update("downloading", "undefined", "undefined"),
                            Update("complete", "false", "undefined") >>
        /\ log[q].prog = << Update("fetching", "undefined", "undefined"),
                            Update("undefined", "undefined", "undefined"),
                            Update("downloading", "undefined", "undefined"),
                            Update("error", "undefined", "undefined") >>

----------------------------------------------------------------------------
(* SpecLink: calls of ensureProjectPackageLink over every content of the   *)
(* entry path and of the link path                                         *)

LinkInit ==
    /\ \E entry \in [Keys -> {"absent", "complete", "file"}],
          link \in [Keys -> {"absent", "ok", "stale", "file", "dir"}] :
          fs = [NoFs EXCEPT !.entry = entry, !.link = link]
    /\ pc = [p \in Procs |-> "off"]
    /\ inp = [p \in Procs |-> NoInput]
    /\ loc = [p \in Procs |-> LocInit]
    /\ log = [p \in Procs |-> LogInit]
    /\ hits = {}
    /\ batch = NoBatch
    /\ ft = FtOff
    /\ fw = FwOff
    /\ sd = SdOff
    /\ ln = LnOff /\ rp = RpOff /\ view = ViewOff

LinkNext == LinkCall

SpecLink == LinkInit /\ [][LinkNext]_vars

----------------------------------------------------------------------------
(* Claims about the repository locator (SpecLocator)                       *)

\* C31: every shape of field that denotes one repository (full HTTPS URL,
\* git+https URL, SCP form, host:owner/repo shorthand and, for GitHub, bare
\* owner/repo), with or without a trailing .git, a trailing slash or a
\* #fragment, yields the {host, owner, repo} descriptor of that repository,
\* from parseRepositoryUrl and from normalizeRepositoryToHttpsRepo
C31_SameDescriptorForEveryShape ==
    rp.made =>
        /\ rp.parsed = rp.want
        /\ rp.normalized = rp.want

\* the fields parseRepositoryUrl does not resolve: the bare shape closed by
\* a slash
BareWithSlash == rp.shape = "bare" /\ rp.decoration.slash

\* the fields whose ".git" parseRepositoryUrl keeps: a repository name
\* captured whole by a pattern and closed by ".git/"
DotGitBeforeSlash ==
    /\ rp.shape \in {"scp", "shorthand"}
    /\ rp.decoration.git /\ rp.decoration.slash

\* C31, as far as it holds: every field but the bare one closed by a slash
\* yields the descriptor from normalizeRepositoryToHttpsRepo, and from
\* parseRepositoryUrl unless its name is closed by ".git/"; the bare field
\* closed by a slash yields nothing, and a name closed by ".git/" keeps its
\* ".git" in parseRepositoryUrl
C31_HoldsButForTrailingSlash ==
    rp.made =>
        /\ ~BareWithSlash => rp.normalized = rp.want
        /\ (~BareWithSlash /\ ~DotGitBeforeSlash) => rp.parsed = rp.want
        /\ BareWithSlash => rp.parsed = NoRepo /\ rp.normalized = NoRepo
        /\ DotGitBeforeSlash => rp.parsed = [rp.want EXCEPT !.repo = @ \o MsgDotGit]

C31_Witness ==
    /\ rp.made
    /\ rp.shape = "scp"
    /\ rp.decoration = [git |-> TRUE, slash |-> FALSE, fragment |-> TRUE]
    /\ rp.want.host = "bitbucket"
    /\ rp.parsed = rp.want
    /\ rp.normalized = rp.want

----------------------------------------------------------------------------
(* Claims about the project-local link (SpecLink, Spec)                    *)

\* the link path of k holds a link that resolves to the entry of k (for a
\* cwd that is the home directory the link path is the entry path)
LinkResolves(f, k, cwdHome) ==
    /\ IsDirectory(f.entry[k])
    /\ ~cwdHome => f.link[k] = "ok"

\* C22: ensureProjectPackageLink is idempotent: a link that resolves to the
\* target entry is left untouched, anything else at the link path is
\* replaced, every call that returns leaves the link resolving to the
\* entry, and a second call with the same arguments returns and changes
\* nothing.
C22_LinkIsIdempotent ==
    (ln.made /\ ~ln.threw) =>
        /\ LinkResolves(fs, ln.key, ln.cwdHome)
        /\ LinkResolves(ln.before, ln.key, ln.cwdHome) => fs = ln.before
        /\ EnsureProjectPackageLink(fs, ln.key, ln.cwdHome) = [threw |-> FALSE, fs |-> fs]

\* C22 for a cwd that is not the home directory, the repeated call included
C22_HoldsOutsideHome ==
    /\ (ln.made /\ ~ln.threw /\ ~ln.cwdHome) =>
          /\ LinkResolves(fs, ln.key, FALSE)
          /\ ln.before.link[ln.key] = "ok" => fs = ln.before
          /\ \A k \in Keys \ {ln.key} : fs.link[k] = ln.before.link[k]
          /\ fs.entry = ln.before.entry
    /\ (ln.made /\ ln.again /\ ~ln.cwdHome) => ~ln.threw /\ fs = ln.before

\* a directory at the link path was replaced by the link, and the call
\* was made again
C22_Witness ==
    /\ ln.made /\ ln.again /\ ~ln.cwdHome /\ ~ln.threw
    /\ fs.link[ln.key] = "ok"
    /\ \E k \in Keys \ {ln.key} : fs.link[k] = "dir"

\* C23: when the cache entry of (packageName, version) is missing or is no
\* directory, ensureProjectPackageLink throws and what is at the link path
\* stays as it was: nothing is made, replaced or removed.
C23_MissingEntryThrows ==
    (ln.made /\ ~IsDirectory(ln.before.entry[ln.key])) =>
        /\ ln.threw
        /\ fs = ln.before

\* a call for a missing entry, and one for an entry path that holds a
\* file, with a stale link at the link path
C23_Witness ==
    /\ ln.made /\ ln.threw
    /\ ln.before.entry[ln.key] \in {"absent", "file"}
    /\ ln.before.link[ln.key] = "stale"
    /\ fs.link[ln.key] = "stale"

\* C24: whenever pullPackageForProject returns status complete for a
\* package at a version, from a cache hit or from a fresh download, the
\* link path of that key under <cwd>/.cocon/packages holds a link that
\* resolves to the entry in the shared store.
C24_CompleteMeansLinked ==
    \A p \in Procs :
        (pc[p] = "done" /\ Api(p) = "pull" /\ loc[p].res.status = "complete") =>
            LinkResolves(fs, Key(p), inp[p].cwdHome)

\* C24 for a cwd that is not the home directory
C24_HoldsOutsideHome ==
    \A p \in Procs :
        (/\ pc[p] = "done" /\ Api(p) = "pull" /\ loc[p].res.status = "complete"
         /\ ~inp[p].cwdHome) =>
            LinkResolves(fs, Key(p), FALSE)

\* a call outside the home directory that returned complete after a
\* download, the link made
C24_Witness ==
    \E p \in Procs :
        /\ pc[p] = "done" /\ Api(p) = "pull" /\ ~inp[p].cwdHome
        /\ loc[p].res.status = "complete" /\ loc[p].res.fromCache = "false"
        /\ log[p].reqs # <<>>
        /\ fs.link[Key(p)] = "ok"


\* C34: a call of ensureProjectPackageLink leaves every cache entry as it
\* found it, for every cwd, the home directory included
C34_LinkNeverTouchesEntry ==
    ln.made => fs.entry = ln.before.entry

\* C34 for a cwd outside the home directory: the entries stay, and of the
\* project's links only the one of the call's key may change
C34_HoldsOutsideHome ==
    (ln.made /\ ~ln.cwdHome) =>
        /\ fs.entry = ln.before.entry
        /\ fs.tmp = ln.before.tmp
        /\ \A k \in Keys \ {ln.key} : fs.link[k] = ln.before.link[k]
        /\ ln.threw => fs.link = ln.before.link

\* a call from outside home replaced a directory at the link path and left
\* both entries standing
C34_Witness ==
    /\ ln.made /\ ~ln.cwdHome /\ ~ln.threw
    /\ ln.before.link[ln.key] = "dir"
    /\ fs.link[ln.key] = "ok"
    /\ \A k \in Keys : fs.entry[k] = "complete" /\ ln.before.entry[k] = "complete"

----------------------------------------------------------------------------
(* Claims about the store directory (SpecStore)                            *)

\* the name readdir gives for the entry of k on the platform of the store
RelativePathOf(k) == JoinPath(GetStoredPackagePath(k.name, k.version), sd.sep)

\* C18: for every package name, scoped or not, and every version, parsing
\* the relative path that getStoredPackagePath builds gives that name and
\* that version back, the version starting after the last "@" of the leaf
\* segment; so an installed entry is enumerated under its own key.
C18_StoredPathRoundTrip ==
    \A k \in sd.installed :
        LET path == GetStoredPackagePath(k.name, k.version)
            leaf == path[Len(path)]
            parsed == ParseStoredPackageRelativePath(RelativePathOf(k))
        IN  /\ parsed = [packageName |-> k.name, version |-> k.version]
            /\ LastIndexOf(leaf, "@") + 1 + Len(parsed.version) = Len(leaf)
            /\ sd.listed =>
                  \E i \in 1..Len(sd.got) :
                      sd.got[i] = [packageName |-> k.name, version |-> k.version,
                                   outputDir |-> path]

\* a scoped package is installed in a store whose separator is "\" and the
\* enumeration has named it
C18_Witness ==
    /\ sd.sep = "\\"
    /\ sd.listed
    /\ \E k \in sd.installed :
          /\ k.name = <<"@", "s", "/", "n">>
          /\ RelativePathOf(k) = <<"@", "s", "\\", "n", "@">> \o k.version
          /\ \E i \in 1..Len(sd.got) : sd.got[i].packageName = k.name

\* C19: the path of an entry is an injective function of its key: two
\* distinct keys never have the same path, and the directory at a path is
\* the entry of one key only.
C19_StoredPathInjective ==
    /\ \A k1, k2 \in sd.installed :
          GetStoredPackagePath(k1.name, k1.version) =
              GetStoredPackagePath(k2.name, k2.version) => k1 = k2
    /\ \A k \in sd.installed :
          [path |-> GetStoredPackagePath(k.name, k.version), kind |-> "dir"] \in sd.tree
    /\ \A k \in StoreKeys \ sd.installed :
          [path |-> GetStoredPackagePath(k.name, k.version), kind |-> "dir"] \notin sd.tree

\* every key of the store is installed, the scoped and the unscoped package
\* of one leaf name and one version among them
C19_Witness ==
    /\ sd.installed = StoreKeys
    /\ Cardinality({ GetStoredPackagePath(k.name, k.version) : k \in sd.installed }) =
          Cardinality(StoreKeys)

\* C20: after any sequence of acquisitions and prunes, getStoredPackages
\* gives one entry for each key whose entry is installed and no other entry:
\* no directory inside a source tree and no temp directory is reported.
C20_ListsExactlyInstalledEntries ==
    (sd.listed /\ sd.acquiring = <<>>) =>
        /\ { [name |-> sd.got[i].packageName, version |-> sd.got[i].version] :
               i \in 1..Len(sd.got) } = sd.installed
        /\ Len(sd.got) = Cardinality(sd.installed)

\* the candidates of the enumeration that stat shows to be directories
ValidCandidates == { x \in Candidates(sd.tree, sd.sep) : x.kind = "dir" }

----------------------------------------------------------------------------
(* Claims about pruneCache (SpecStore)                                     *)

\* what getStoredPackages gave the last prune
PrunedStored == sd.pruned.stored

\* the entries of the package of `entry` with a higher version, numbers
\* compared as numbers
HigherVersions(stored, entry) ==
    { i \in 1..Len(stored) :
        /\ stored[i].packageName = entry.packageName
        /\ LocaleCompare(stored[i].version, entry.version, TRUE) > 0 }

NamedByKeepLatest(stored, entry, options) ==
    Cardinality(HigherVersions(stored, entry)) < options.keepLatest

NamedByProject(entry, options, project) ==
    /\ options.keepProjectDependencies
    /\ project.readable
    /\ \E i \in 1..Len(project.dependencies) :
          /\ project.dependencies[i].name = entry.packageName
          /\ TargetVersion(project.dependencies[i]) = entry.version

NamedByKeepList(entry, options) ==
    \E i \in 1..Len(options.keep) :
        ParsePackageVersionReference(options.keep[i]) =
            [packageName |-> entry.packageName, version |-> entry.version]

\* a keep rule names the (packageName, version) of the entry
NamedByRule(stored, entry, options, project) ==
    \/ NamedByKeepLatest(stored, entry, options)
    \/ NamedByProject(entry, options, project)
    \/ NamedByKeepList(entry, options)

\* the entries of a sequence, without their order
Entries(q) == { q[i] : i \in 1..Len(q) }

\* every entry of `stored` that a rule names still stands in the store and
\* is not reported removed, and every other entry is reported and gone
RemovedExactlyTheUnnamed(stored) ==
    \A entry \in Entries(stored) :
        /\ NamedByRule(stored, entry, sd.pruned.options, sd.pruned.project) <=>
              [path |-> entry.outputDir, kind |-> "dir"] \in sd.tree
        /\ NamedByRule(stored, entry, sd.pruned.options, sd.pruned.project) <=>
              entry \notin Entries(sd.pruned.result.removed)

\* C25: pruneCache removes an enumerated entry if and only if no keep rule
\* (keepLatest, keepProjectDependencies, the keep list) names its exact
\* (packageName, version): an entry that a rule names still stands after
\* the prune, and every other entry is reported removed and is gone when
\* the call returns.
C25_RemovesExactlyTheUnnamed ==
    (sd.pruned.made /\ ~sd.pruned.options.dryRun) =>
        \A stored \in {PrunedStored} : RemovedExactlyTheUnnamed(stored)

\* the enumeration names no directory inside an entry
NothingNested(stored) ==
    \A entry \in Entries(stored) :
        \E k \in StoreKeys : entry.outputDir = GetStoredPackagePath(k.name, k.version)

\* C25 for a store whose enumeration names installed entries only
C25_HoldsWithoutNested ==
    (sd.pruned.made /\ ~sd.pruned.options.dryRun) =>
        \A stored \in {PrunedStored} :
            NothingNested(stored) => RemovedExactlyTheUnnamed(stored)

\* a prune of four installed entries with keepLatest = 1 that kept a lower
\* version for the project alone and removed the other lower version
C25_Witness ==
    /\ sd.pruned.made /\ ~sd.pruned.options.dryRun
    /\ sd.pruned.options.keepLatest = 1 /\ sd.pruned.options.keep = <<>>
    /\ Len(sd.pruned.result.removed) = 1
    /\ \E stored \in {PrunedStored} :
          /\ NothingNested(stored)
          /\ Len(stored) = 4
          /\ \E b \in Entries(stored) :
                /\ NamedByProject(b, sd.pruned.options, sd.pruned.project)
                /\ ~NamedByKeepLatest(stored, b, sd.pruned.options)
                /\ [path |-> b.outputDir, kind |-> "dir"] \in sd.tree

\* the options name rule 1 alone
OnlyKeepLatest(options) ==
    ~options.keepProjectDependencies /\ options.keep = <<>>

C27_DryRunOnlyReports ==
    (sd.pruned.made /\ sd.pruned.options.dryRun) =>
        /\ sd.tree = sd.pruned.before
        /\ sd.pruned.result.totalAfter = sd.pruned.result.totalBefore
        /\ sd.pruned.result.removed =
              PruneCache(sd.pruned.before, sd.sep,
                         [sd.pruned.options EXCEPT !.dryRun = FALSE],
                         sd.pruned.project).result.removed

\* a dry run that reported two entries, both still standing
C27_Witness ==
    /\ sd.pruned.made /\ sd.pruned.options.dryRun
    /\ Len(sd.pruned.result.removed) = 2
    /\ \A i \in 1..2 :
          [path |-> sd.pruned.result.removed[i].outputDir, kind |-> "dir"] \in sd.tree
    /\ sd.pruned.result.totalBefore = 4

\* the halves of a keep reference around its last "@" (no "@": the name
\* half is empty)
HalvesOf(reference) ==
    [packageName |-> SubSeq(reference, 1, LastIndexOf(reference, "@")),
     version |-> SubSeq(reference, LastIndexOf(reference, "@") + 2, Len(reference))]

Malformed(reference) ==
    HalvesOf(reference).packageName = <<>> \/ HalvesOf(reference).version = <<>>

\* C28: each reference of the keep list is split at its last "@" into
\* package name and version; a reference with an empty name half or an
\* empty version half adds one warning and no keep reason, and pruneCache
\* goes on with the references after it and with the entries: a well-formed
\* reference protects its entry wherever it stands in the list.
C28_MalformedKeepOnlyWarns ==
    sd.pruned.made =>
        \A keep \in {sd.pruned.options.keep} :
            /\ SelectSeq(sd.pruned.result.warnings, LAMBDA w : w.kind = "keep") =
                  [i \in 1..Len(SelectSeq(keep, Malformed)) |->
                      [kind |-> "keep", reference |-> SelectSeq(keep, Malformed)[i]]]
            /\ { r.key : r \in ExplicitReasons(keep) } =
                  { ReasonKey(HalvesOf(keep[i]).packageName, HalvesOf(keep[i]).version) :
                      i \in { j \in 1..Len(keep) : ~Malformed(keep[j]) } }
            /\ \A i \in 1..Len(keep), j \in 1..Len(sd.pruned.result.removed) :
                  ~Malformed(keep[i]) =>
                      HalvesOf(keep[i]) #
                          [packageName |-> sd.pruned.result.removed[j].packageName,
                           version |-> sd.pruned.result.removed[j].version]
            /\ Len(sd.pruned.result.removed) + sd.pruned.result.kept =
                  sd.pruned.result.totalBefore

\* a prune by the keep list alone, two malformed references before the
\* one of a scoped package: two warnings, that entry kept, another removed
C28_Witness ==
    /\ sd.pruned.made /\ ~sd.pruned.options.dryRun
    /\ sd.pruned.options.keepLatest = 0 /\ ~sd.pruned.options.keepProjectDependencies
    /\ sd.pruned.options.keep = <<MsgKeepScopedNoVersion, MsgKeepNoVersion, MsgKeepScoped1100>>
    /\ Len(sd.pruned.result.warnings) = 2
    /\ [path |-> GetStoredPackagePath(<<"@", "s", "/", "n">>, <<"1", ".", "1", "0", ".", "0">>),
        kind |-> "dir"] \in sd.tree
    /\ sd.pruned.result.kept = 1
    /\ Len(sd.pruned.result.removed) >= 1

\* the dependencies of the project of the last prune, and those for which
\* no target version is found (the package is not installed and its
\* declared range gives no version)
Dependencies == Entries(sd.pruned.project.dependencies)

Unresolved == { d \in Dependencies : TargetVersion(d) = Null }

\* rule 2 ran over a manifest with a dependency it could not resolve
RuleTwoMetUnresolved ==
    /\ sd.pruned.made
    /\ sd.pruned.options.keepProjectDependencies
    /\ sd.pruned.project.readable
    /\ Unresolved # {}

\* the target version of every other dependency has a reason, and is not
\* among the removed entries
OthersProtected ==
    \A d \in Dependencies \ Unresolved :
        /\ ReasonKey(d.name, TargetVersion(d)) \in
              { r.key : r \in ProjectReasons(TRUE, sd.pruned.project) }
        /\ \A j \in 1..Len(sd.pruned.result.removed) :
              [packageName |-> d.name, version |-> TargetVersion(d)] #
                  [packageName |-> sd.pruned.result.removed[j].packageName,
                   version |-> sd.pruned.result.removed[j].version]

\* the unresolved dependencies have no reason of rule 2
UnresolvedGiveNoReason ==
    \A d \in Unresolved, t \in GetProjectTargetVersions(sd.pruned.project) :
        t.packageName # d.name

\* C29: when the target version of one dependency cannot be resolved,
\* pruneCache records a warning for it, the dependency contributes no keep
\* reason, the target versions of the other dependencies are still
\* protected, and the prune runs to its end.
C29_UnresolvedDependencyWarns ==
    RuleTwoMetUnresolved =>
        /\ \E i \in 1..Len(sd.pruned.result.warnings) :
              sd.pruned.result.warnings[i].kind = "project"
        /\ UnresolvedGiveNoReason
        /\ OthersProtected
        /\ Len(sd.pruned.result.removed) + sd.pruned.result.kept =
              sd.pruned.result.totalBefore

\* C29 without the warning
C29_HoldsButForWarning ==
    RuleTwoMetUnresolved =>
        /\ UnresolvedGiveNoReason
        /\ OthersProtected
        /\ Len(sd.pruned.result.removed) + sd.pruned.result.kept =
              sd.pruned.result.totalBefore
        /\ sd.pruned.result.warnings = ExplicitWarnings(sd.pruned.options.keep)

\* a prune by rule 2 alone in a project with an unresolved dependency: the
\* targets of the two others stand, the rest is removed
C29_Witness ==
    /\ RuleTwoMetUnresolved
    /\ ~sd.pruned.options.dryRun
    /\ sd.pruned.options.keepLatest = 0 /\ sd.pruned.options.keep = <<>>
    /\ sd.pruned.result.totalBefore = 4
    /\ sd.pruned.result.kept = 2
    /\ sd.installed =
          { [name |-> <<"@", "s", "/", "n">>, version |-> <<"1", ".", "1", "0", ".", "0">>],
            [name |-> <<"n">>, version |-> <<"1", ".", "9", ".", "0">>] }

\* the last prune ran rule 2 over a readable manifest
RuleTwoRan ==
    /\ sd.pruned.made
    /\ sd.pruned.options.keepProjectDependencies
    /\ sd.pruned.project.readable

\* what getStoredPackages gives for the store as it stands
StoredNow == GetStoredPackages(CollectStoredPackages(sd.tree, sd.sep))

\* C35: with keepProjectDependencies and a readable manifest, whatever
\* keepLatest, the keep list and dryRun are, no entry of a dependency's
\* target version is among the removed entries or leaves the store, and
\* every dependency that getCacheStatus gives as isTargetCached before the
\* prune is isTargetCached after it.
C35_PruneKeepsDependencyTargets ==
    RuleTwoRan =>
        \A after \in { StoredNow } :
            /\ \A i \in 1..Len(sd.pruned.project.dependencies) :
                  GetCacheStatus(sd.pruned.project, PrunedStored)[i].isTargetCached =>
                      GetCacheStatus(sd.pruned.project, after)[i].isTargetCached
            /\ \A d \in Dependencies \ Unresolved :
                  \A entry \in { [packageName |-> d.name, version |-> TargetVersion(d)] } :
                      /\ \A j \in 1..Len(sd.pruned.result.removed) :
                            entry # [packageName |-> sd.pruned.result.removed[j].packageName,
                                     version |-> sd.pruned.result.removed[j].version]
                      /\ [path |-> GetStoredPackagePath(entry.packageName, entry.version),
                          kind |-> "dir"] \in sd.pruned.before =>
                            [path |-> GetStoredPackagePath(entry.packageName, entry.version),
                             kind |-> "dir"] \in sd.tree

\* a prune with keepLatest 0 and no keep list removed entries, and the
\* targets of the installed dependency and of the one with a range are
\* cached before it and after it
C35_Witness ==
    /\ RuleTwoRan
    /\ ~sd.pruned.options.dryRun
    /\ sd.pruned.options.keepLatest = 0 /\ sd.pruned.options.keep = <<>>
    /\ sd.pruned.result.removed # <<>>
    /\ \A i \in 1..2 : GetCacheStatus(sd.pruned.project, PrunedStored)[i].isTargetCached
    /\ \A i \in 1..2 : GetCacheStatus(sd.pruned.project, StoredNow)[i].isTargetCached
    /\ GetCacheStatus(sd.pruned.project, StoredNow)[1].targetVersionSource = "installed"
    /\ GetCacheStatus(sd.pruned.project, StoredNow)[2].targetVersionSource = "declared-range"

----------------------------------------------------------------------------
(* Claims about fetchWithRetry (SpecFetch)                                 *)

\* the retryable outcomes as the claim lists them
TransientOutcome(o) ==
    \/ o.kind = "response" /\ o.status \in {408, 425, 429, 500, 502, 503, 504}
    \/ o.kind = "error" /\ IsRetryableError(o)

\* the wait the claim asks for before request number n (n = 2, 3)
ClaimedWaitMs(n) == IF n = 2 THEN 150 ELSE 300

FetchRequestsBounded == RequestCount(fw.events) <= 3

\* a request that is not the first comes right after a wait of the claimed
\* length, which comes right after a request with a transient outcome
FetchRetriesOnlyTransient ==
    \A i \in RequestIndexes(fw.events) :
        i > 1 =>
            /\ i >= 3
            /\ fw.events[i - 1].type = "wait"
            /\ fw.events[i - 1].ms = ClaimedWaitMs(RequestCount(SubSeq(fw.events, 1, i)))
            /\ fw.events[i - 2].type = "request"
            /\ TransientOutcome(fw.events[i - 2].outcome)

\* a wait is always followed by a request: the call never ends on a wait
FetchNoWaitAfterLast ==
    /\ FetchDone(fw) => fw.events # <<>> /\ fw.events[Len(fw.events)].type = "request"
    /\ \A i \in 1..Len(fw.events) :
           fw.events[i].type = "wait" => i < Len(fw.events) \/ fw.st = "fetch"

\* C7: fetchWithRetry issues at most 3 requests and always terminates; a
\* further request follows only a transient response status or a transient
\* thrown error, after a wait of 150 ms (before the second request) or 300 ms
\* (before the third), and nothing is waited for after the last attempt.
C7_FetchBoundedBackoff ==
    /\ [](FetchRequestsBounded /\ FetchRetriesOnlyTransient /\ FetchNoWaitAfterLast)
    /\ <>FetchDone(fw)

\* C7 witness: a call that used all three attempts, with both waits
C7_Witness ==
    /\ FetchDone(fw)
    /\ RequestCount(fw.events) = 3
    /\ Len(fw.events) = 5
    /\ fw.events[2].ms = 150
    /\ fw.events[4].ms = 300

LastOutcome(ev) == ev[Len(ev)].outcome

\* C8: fetchWithRetry surfaces the last outcome unchanged: a response is
\* returned and an error rethrown as received; a non-transient response
\* (404 included) or error ends the call after exactly one request; on the
\* third attempt a transient status is still returned as a response and a
\* transient error rethrown as it is.
C8_FetchSurfacesLastOutcome ==
    /\ FetchDone(fw) =>
        /\ fw.events[Len(fw.events)].type = "request"
        /\ fw.result = LastOutcome(fw.events)
        /\ fw.st = "returned" <=> LastOutcome(fw.events).kind = "response"
        /\ fw.st = "thrown" <=> LastOutcome(fw.events).kind = "error"
    /\ (fw.events # <<>> /\ ~TransientOutcome(fw.events[1].outcome)) =>
        /\ FetchDone(fw)
        /\ Len(fw.events) = 1
    /\ RequestCount(fw.events) = 3 =>
        /\ FetchDone(fw)
        /\ Len(fw.events) = 5
        /\ fw.result = fw.events[5].outcome

\* C8 witness: the third attempt ended on a transient status, returned as a
\* response
C8_Witness ==
    /\ fw.st = "returned"
    /\ RequestCount(fw.events) = 3
    /\ fw.result.kind = "response"
    /\ fw.result.status = 503

----------------------------------------------------------------------------
(* Claims about findTag (SpecTag)                                          *)

\* the first tag, in listing order, that holds the version as literal text
LiteralFirst(tags, version) ==
    ArrayFind(tags, { i \in 1..Len(tags) : Includes(tags[i], version) })

\* the tag the priority list of the claim selects
ClaimedTag(tags, version, packageName) ==
    LET unscoped == Split(packageName, "/")[2] \o At \o version
    IN  IF ArrayIncludes(tags, <<"v">> \o version) THEN <<"v">> \o version
        ELSE IF ArrayIncludes(tags, version) THEN version
        ELSE IF ArrayIncludes(tags, packageName \o At \o version)
             THEN packageName \o At \o version
        ELSE IF HasScopePrefix(packageName) /\ ArrayIncludes(tags, unscoped)
             THEN unscoped
        ELSE LiteralFirst(tags, version)

NoExactRule(tags, version, packageName) ==
    /\ ~ArrayIncludes(tags, <<"v">> \o version)
    /\ ~ArrayIncludes(tags, version)
    /\ ~ArrayIncludes(tags, packageName \o At \o version)
    /\ ~(HasScopePrefix(packageName)
         /\ ArrayIncludes(tags, Split(packageName, "/")[2] \o At \o version))

TagListed == ft.st = "returned" /\ ft.listing.ok /\ ft.listing.tags # <<>>

\* C9: findTag returns the first match in strict priority order: v<version>,
\* <version>, <packageName>@<version>, <unscopedName>@<version> (scoped
\* names only), then the first listed tag containing the version; an earlier
\* rule wins whatever the order of the listing.
C9_FindTagPriority ==
    TagListed =>
        /\ ~ft.res.threw
        /\ ft.res.tag = ClaimedTag(ft.listing.tags, ft.version, ft.packageName)

\* the part of C9 the code keeps: whenever an exact rule matches, the first
\* exact rule in the order of the claim decides, and the fifth rule is only
\* consulted when none does
C9_ExactRulesInOrder ==
    (TagListed /\ ~NoExactRule(ft.listing.tags, ft.version, ft.packageName)) =>
        /\ ~ft.res.threw
        /\ ft.res.tag = ClaimedTag(ft.listing.tags, ft.version, ft.packageName)

\* C9 holds in full for the versions that spell no RegExp syntax but dots
C9_HoldsForPlainVersions ==
    (TagListed /\ ~ArrayIncludes(ft.version, "+")) =>
        ft.res.tag = ClaimedTag(ft.listing.tags, ft.version, ft.packageName)

\* C10: when no exact rule matches, findTag returns the first tag in listing
\* order that contains the version as a literal substring, for every version
\* string, and no tag when no listed tag contains it.
C10_FuzzyIsLiteralSubstring ==
    (TagListed /\ NoExactRule(ft.listing.tags, ft.version, ft.packageName)) =>
        /\ ~ft.res.threw
        /\ ft.res.tag = LiteralFirst(ft.listing.tags, ft.version)
        /\ ft.res.usedFallback <=> (LiteralFirst(ft.listing.tags, ft.version) = Null)

\* C10 holds for the versions that spell no RegExp syntax but dots: the dot
\* is matched literally
C10_HoldsForPlainVersions ==
    (TagListed /\ NoExactRule(ft.listing.tags, ft.version, ft.packageName)
       /\ ~ArrayIncludes(ft.version, "+")) =>
        ft.res.tag = LiteralFirst(ft.listing.tags, ft.version)

----------------------------------------------------------------------------
(* Claims about the dependencies of a sync (SpecSync)                      *)

\* the names the package.json of the sync declares, in any group
DeclaredNames ==
    UNION { { batch.json[g][i].name : i \in DOMAIN batch.json[g] } : g \in DOMAIN batch.json }

\* the number of declarations the package.json holds, all groups together
Declarations(packageJson) ==
    Len(packageJson[1] \o packageJson[2] \o packageJson[3] \o packageJson[4])

\* the calls the sync has started
Started == { p \in Procs : inp[p] # NoInput }

\* C38: a sync starts exactly one acquisition per distinct dependency name,
\* a name declared in several groups being pulled once, so that no two
\* acquisitions it started share a cache key
C38_OneAcquisitionPerName ==
    batch.json # NoPackageJson /\ batch.state \notin {"reading", "listed"} =>
        /\ Len(batch.deps) = Cardinality(DeclaredNames)
        /\ Cardinality(Started) = Len(batch.deps)
        /\ { Key(p).name : p \in Started } = DeclaredNames
        /\ \A p, q \in Started : p # q => Key(p) # Key(q)
        /\ \A p \in Started : Key(p) = batch.deps[p].key

\* a sync whose package.json declares a package in three groups has started
\* its calls, one for each of the two names, and both have returned
C38_Witness ==
    /\ batch.json # NoPackageJson
    /\ batch.state = "returned"
    /\ Declarations(batch.json) > Cardinality(DeclaredNames) + 1
    /\ Cardinality(Started) = Cardinality(DeclaredNames)
    /\ \A p \in Started : pc[p] = "done"

\* the call of p was given a "workspace:" specifier by the sync
DeclaredWorkspace(p) ==
    /\ batch.json # NoPackageJson
    /\ batch.state \notin {"reading", "listed"}
    /\ batch.deps[p].spec \in {MsgWorkspaceSpec, MsgWorkspaceSpelled}

\* C39: a dependency declared with a "workspace:" specifier is reported as
\* skipped with reason workspace and nothing else happens for it: the call
\* has returned with its first step, having resolved no installed package,
\* looked at no cache entry, made no link, no request and no git process,
\* and "skipped" is the only status it emitted
C39_WorkspaceSpecifierOnlySkips ==
    \A p \in Procs : DeclaredWorkspace(p) =>
        /\ pc[p] = "done"
        /\ loc[p] = [LocInit EXCEPT !.res = [Skipped("workspace") EXCEPT
                                               !.packageName = batch.deps[p].key.name]]
        /\ log[p] = [LogInit EXCEPT
                       !.prog = <<Update("skipped", "undefined", "workspace")>>]
        /\ fs.entry[Key(p)] = "absent"
        /\ fs.link[Key(p)] = "absent"
        /\ fs.tmp[p] = "none"

\* a sync has returned: the dependency declared " Workspace:^" was skipped
\* and the other one was downloaded and linked
C39_Witness ==
    /\ batch.state = "returned"
    /\ \E p, q \in Procs :
        /\ DeclaredWorkspace(p)
        /\ batch.deps[p].spec # MsgWorkspaceSpec
        /\ batch.results[p].status = "skipped"
        /\ batch.results[p].skipReason = "workspace"
        /\ ~DeclaredWorkspace(q)
        /\ batch.results[q].status = "complete"
        /\ fs.entry[Key(q)] = "complete"
        /\ fs.link[Key(q)] = "ok"

----------------------------------------------------------------------------
(* Claims about the pull view (SpecPull)                                   *)

\* the names of the results the store holds
ResultNames == { view.store.results[j].packageName : j \in DOMAIN view.store.results }

\* every pull has settled and its result is recorded, and the store holds
\* one result for each requested name and no other
SettledOnePerName ==
    /\ ~view.store.running
    /\ \A i \in DOMAIN view.calls : view.calls[i].returned /\ view.calls[i].recorded
    /\ DOMAIN view.calls = DOMAIN view.list
    /\ ResultNames = Range(view.list)
    /\ Len(view.store.results) = Cardinality(Range(view.list))
    /\ \A j \in DOMAIN view.store.results :
           \E i \in DOMAIN view.calls : view.store.results[j] = view.calls[i].run.result

\* C37: done is true (and running false) only once every pull has settled;
\* the store then holds exactly one result per distinct requested name, and
\* every row shows the terminal status of the result of its package, none
\* left pending, fetching, finding-tag or downloading
C37_DoneSettledRowsTerminal ==
    /\ view.phase # "off" => (view.store.running <=> ~view.store.done)
    /\ view.store.done =>
        /\ SettledOnePerName
        /\ \A i \in DOMAIN view.store.packages :
               /\ view.store.packages[i].status \in TerminalStatuses
               /\ \E j \in DOMAIN view.store.results :
                      /\ view.store.results[j].packageName = view.store.packages[i].name
                      /\ view.store.results[j].status = view.store.packages[i].status

\* executePullAction: the part of C37 the code keeps. done is true only once
\* every pull has settled and the store holds one result per distinct name;
\* the rows are then as createPullStore made them
C37_HoldsButForRows ==
    /\ view.phase # "off" => (view.store.running <=> ~view.store.done)
    /\ view.store.done =>
        /\ SettledOnePerName
        /\ view.store.packages = CreatePullStore(view.list).packages

\* a run is over for a list that names a package twice, one of its pulls
\* having failed and one completed by a download, every row still pending
C37_Witness ==
    /\ view.store.done
    /\ Len(view.list) > Cardinality(Range(view.list))
    /\ \E i, j \in DOMAIN view.calls :
           /\ view.calls[i].run.result.status = "error"
           /\ view.calls[j].run.result.status = "complete"
           /\ view.calls[j].at = Len(view.calls[j].run.updates)
    /\ \A i \in DOMAIN view.store.packages : view.store.packages[i].status = "pending"

====
